---- MODULE Spec2Model ----
(***************************************************************************)
(* A model of the telegram-tasks-bot dispatcher (internal/app/bot.go, the  *)
(* version with four session maps) together with the sqlite storage it     *)
(* calls.  One update of the Telegram update stream is handled completely  *)
(* before the next one is read (Bot.Start), so a step of the model is the  *)
(* handling of one update.                                                 *)
(*                                                                         *)
(* Every handler is written as an operator from a state record S to the   *)
(* state record after the handler returned.  Besides the program state the *)
(* record carries what the handling of the current update produced: the    *)
(* messages sent (out), the error returned to Bot.Start (err) and the      *)
(* branch of Bot.Start that took the update (route).                       *)
(***************************************************************************)
EXTENDS Integers, Sequences, FiniteSets, TLC

VARIABLES
    projects,                     \* rows of table projects
    users,                        \* rows of table users
    userProjects,                 \* rows of table user_projects
    tasks,                        \* rows of table tasks
    taskCreationState,            \* Bot.taskCreationState: map tg user id -> *TaskCreationState
    taskEditState,                \* Bot.taskEditState: map tg user id -> *TaskEditState
    projectRenameState,           \* Bot.projectRenameState: map tg user id -> bool
    projectDescriptionEditState,  \* Bot.projectDescriptionEditState: map tg user id -> bool
    cfg,                          \* Bot.cfg (Public, AllowedTgIDs)
    filterRecentTasksCall,        \* a call of filterRecentTasks: argument and result
    loop                          \* Bot.Start: whether its loop runs, whether ctx is done

vars == <<projects, users, userProjects, tasks, taskCreationState, taskEditState,
          projectRenameState, projectDescriptionEditState, cfg, filterRecentTasksCall,
          loop>>

---------------------------------------------------------------------------
(* Bounds of the model.                                                    *)

\* Rows the tasks table may hold.
MaxTasks == 1
\* Largest project id the model lets sqlite hand out.
MaxProjectID == 2

---------------------------------------------------------------------------
(* The finite world the updates are drawn from.                            *)

\* Platform (Telegram) user ids; internal user ids are 1, 2, ...
TgUsers == {101, 102}
\* Telegram chat ids.
Chats == {201, 202}
\* update.Message.Chat.Title
ChatTitle(chatID) == IF chatID = 201 THEN "Alpha" ELSE "Beta"
\* update.Message.From.UserName
UserNameOf(tgUserID) == IF tgUserID = 101 THEN "alice" ELSE "bob"
\* b.api.Self.UserName
BotUserName == "taskbot"

---------------------------------------------------------------------------
(* Text of a message.  A text is a string of a fixed alphabet; the string  *)
(* functions the handlers use are given by their value on that alphabet.   *)
(* "otmena" stands for the Russian cancel keyword of the source, and "ya"  *)
(* for its Russian self-assignment keyword (the module is ASCII only).     *)

\* strings.TrimSpace
TrimSpace(text) ==
    CASE text = " /cancel " -> "/cancel"
      [] text = "   "       -> ""
      [] text = " Fix bug " -> "Fix bug"
      [] OTHER              -> text

\* Message.IsCommand: the first entity is a bot_command at offset 0, which
\* Telegram sets for a text that starts with /word.
IsCommand(text) ==
    text \in {"/start", "/create_project", "/create_task", "/rename_project",
              "/status", "/home", "/cancel", "/help"}

\* Message.Command: the command without its slash, "" when not a command.
Command(text) ==
    CASE text = "/start"          -> "start"
      [] text = "/create_project" -> "create_project"
      [] text = "/create_task"    -> "create_task"
      [] text = "/rename_project" -> "rename_project"
      [] text = "/status"         -> "status"
      [] text = "/home"           -> "home"
      [] text = "/cancel"         -> "cancel"
      [] text = "/help"           -> "help"
      [] OTHER                    -> ""

\* The texts that start with "@taskbot /", with what follows "@taskbot " and
\* what follows "@taskbot /".
AddressedTable ==
    { [text |-> "@taskbot /start", slashed |-> "/start", command |-> "start"],
      [text |-> "@taskbot /create_project", slashed |-> "/create_project",
       command |-> "create_project"],
      [text |-> "@taskbot /create_task", slashed |-> "/create_task",
       command |-> "create_task"],
      [text |-> "@taskbot /rename_project", slashed |-> "/rename_project",
       command |-> "rename_project"],
      [text |-> "@taskbot /status", slashed |-> "/status", command |-> "status"],
      [text |-> "@taskbot /home", slashed |-> "/home", command |-> "home"],
      [text |-> "@taskbot /help", slashed |-> "/help", command |-> "help"] }

\* A faulty parseCommand, to test that a property depends on it: only
\* "@<bot> " is cut off, the slash stays.
parseCommandKeepsSlash(text, botUsername) ==
    IF botUsername = "taskbot" /\ \E r \in AddressedTable : r.text = text
    THEN [command |-> (CHOOSE r \in AddressedTable : r.text = text).slashed, ok |-> TRUE]
    ELSE [command |-> "", ok |-> FALSE]

\* parseCommand: the text after the prefix "@<bot> /", when it has that prefix.
parseCommand(text, botUsername) ==
    IF botUsername = "taskbot" /\ \E r \in AddressedTable : r.text = text
    THEN [command |-> (CHOOSE r \in AddressedTable : r.text = text).command, ok |-> TRUE]
    ELSE [command |-> "", ok |-> FALSE]

\* Bot.Start, cmdUpdate.Message.Text = "/" + command: the text of the update
\* handed to the command router ("/?" stands for every text that is not a
\* command of the model).
Slash(command) ==
    IF \E r \in AddressedTable : r.command = command
    THEN (CHOOSE r \in AddressedTable : r.command = command).slashed
    ELSE "/?"

\* isSelfAssignment: lower-cased trimmed text is one of the shortcuts.
isSelfAssignment(text) == text \in {"me", "Me", "self", "myself", "ya"}

\* regexp `@(\w+)`.FindStringSubmatch: the first mention, "" when none.
Mention(text) ==
    CASE text = "@alice"          -> "alice"
      [] text = "@bob"            -> "bob"
      [] text = "@ghost"          -> "ghost"
      [] text = "@taskbot"        -> "taskbot"
      [] text = "ask @bob please" -> "bob"
      [] OTHER                    -> ""

\* time.Parse("02.01.2006", text): the day number of a well-formed date.
ParseDate(text) ==
    CASE text = "09.01.2030" -> [ok |-> TRUE, day |-> 9]
      [] text = "10.01.2030" -> [ok |-> TRUE, day |-> 10]
      [] text = "11.01.2030" -> [ok |-> TRUE, day |-> 11]
      [] OTHER               -> [ok |-> FALSE, day |-> 0]

\* The calendar day of time.Now() in time.Local, the zone the calendar keyboard
\* and the calendar callback work in: dates are day numbers, today is 10.01.2030.
Today == ParseDate("10.01.2030").day

\* time.Now() as a handler reads it: the calendar day in time.Local, and the
\* day of time.Now().Truncate(24 * time.Hour).  Truncate rounds the absolute
\* time, so its day is the day in UTC: the local day when the zone is UTC, the
\* day before in the first hours of the day of a zone east of UTC, the day
\* after in the last hours of the day of a zone west of UTC.
Clocks == {[local |-> Today, utc |-> d] : d \in {Today - 1, Today, Today + 1}}
\* The clock of a process whose zone is UTC.
ClockUTC == [local |-> Today, utc |-> Today]

\* time.Time: the zero value, and 23:59:59 of a day.
ZeroTime == [day |-> 0, clock |-> "00:00:00"]
EndOfDay(day) == [day |-> day, clock |-> "23:59:59"]

---------------------------------------------------------------------------
(* The state record.                                                       *)

\* The program state, with the per-update fields cleared: what Bot.Start has
\* before it reads an update.  The per-update fields are the clock (now), the
\* storage call that fails while the update is handled (fault: "none", every
\* "read", every "write", or the name of one call), the calls of UpdateUser,
\* UpdateProject, CreateTask and UpdateTask made (calls), the messages sent,
\* the error returned and the route taken.
State ==
    [projects |-> projects, users |-> users, userProjects |-> userProjects,
     tasks |-> tasks,
     taskCreationState |-> taskCreationState, taskEditState |-> taskEditState,
     projectRenameState |-> projectRenameState,
     projectDescriptionEditState |-> projectDescriptionEditState,
     cfg |-> cfg,
     now |-> ClockUTC, fault |-> "none", calls |-> <<>>,
     out |-> <<>>, err |-> "nil", route |-> "none"]

\* b.api.Send(msg): the message is recorded by a tag naming its text.
Send(S, msg) == [S EXCEPT !.out = Append(@, msg)]
\* return err (or return fmt.Errorf(...)) of a handler.
Return(S, e) == [S EXCEPT !.err = e]
\* Whether a message with this tag was sent while handling the update.
Sent(S, msg) == \E i \in 1..Len(S.out) : S.out[i] = msg

\* A faulty delete, to test that a property depends on it: the map is
\* emptied.
MapDeleteClears(m, key) == [k \in {} |-> m[k]]

\* delete(m, key) on a Go map.
MapDelete(m, key) == [k \in DOMAIN m \ {key} |-> m[k]]
\* m[key] = value on a Go map.
MapSet(m, key, value) == [k \in DOMAIN m \cup {key} |-> IF k = key THEN value ELSE m[k]]
\* The empty Go map.
EmptyMap == [k \in {} |-> TRUE]

\* The id sqlite gives a new row of a table with INTEGER PRIMARY KEY: one more
\* than the largest id in use, so the id of a deleted last row is used again.
LastInsertId(rows) ==
    IF rows = {} THEN 1
    ELSE (CHOOSE i \in {r.id : r \in rows} : \A r \in rows : r.id <= i) + 1

---------------------------------------------------------------------------
(* sqlite.ProjectStorage.  A row of projects is (id, tg_chat_id, title):   *)
(* the statements of this storage neither write nor read a description.    *)

\* model.Project of a row: Scan fills ID, TgChatID, Title; Description stays "".
ProjectOfRow(r) ==
    [ID |-> r.id, TgChatID |-> r.tg_chat_id, Title |-> r.title, Description |-> ""]
\* The zero model.Project.
NoProject == [ID |-> 0, TgChatID |-> 0, Title |-> "", Description |-> ""]

\* model.NewProject
NewProject(title, tgChatID) ==
    [ID |-> 0, TgChatID |-> tgChatID, Title |-> title, Description |-> ""]

FetchProjectByChatID(S, tgChatID) ==
    IF S.fault = "read" THEN [err |-> "io", project |-> NoProject]
    ELSE IF \E r \in S.projects : r.tg_chat_id = tgChatID
         THEN [err |-> "nil",
               project |-> ProjectOfRow(CHOOSE r \in S.projects : r.tg_chat_id = tgChatID)]
         ELSE [err |-> "ErrProjectNotFound", project |-> NoProject]

\* INSERT INTO projects; tg_chat_id is UNIQUE.
CreateProject(S, project) ==
    IF S.fault = "write" \/ \E r \in S.projects : r.tg_chat_id = project.TgChatID
    THEN [S |-> S, err |-> "io", project |-> project]
    ELSE LET id == LastInsertId(S.projects) IN
         [S |-> [S EXCEPT !.projects = @ \cup
                     {[id |-> id, tg_chat_id |-> project.TgChatID, title |-> project.Title]}],
          err |-> "nil",
          project |-> [project EXCEPT !.ID = id]]

\* UPDATE projects SET title = ?, archived = ? WHERE id = ?
UpdateProject(S, project) ==
    LET T == [S EXCEPT !.calls = Append(@, "UpdateProject")] IN
    IF S.fault = "write" THEN [S |-> T, err |-> "io"]
    ELSE [S |-> [T EXCEPT !.projects =
                    {IF r.id = project.ID THEN [r EXCEPT !.title = project.Title] ELSE r
                       : r \in @}],
          err |-> "nil"]

\* DELETE FROM projects WHERE id = ?.  sqlite.Connect opens the database without
\* enabling foreign keys (sqlite leaves them off unless PRAGMA foreign_keys is
\* set on the connection), so the ON DELETE CASCADE clauses of the schema do not
\* act: the rows of tasks and user_projects stay.
DeleteProject(S, id) ==
    IF S.fault = "write" THEN [S |-> S, err |-> "io"]
    ELSE [S |-> [S EXCEPT !.projects = {r \in @ : r.id # id}], err |-> "nil"]

---------------------------------------------------------------------------
(* sqlite.UserStorage.  A row of users is (id, tg_user_id, username); a    *)
(* row of user_projects is (project_id, user_id, user_role) with primary   *)
(* key (project_id, user_id).                                              *)

UserProjectRoleManager == "manager"
UserProjectRoleMember == "member"

\* model.User of a row.
UserOfRow(r) == [ID |-> r.id, TgUserID |-> r.tg_user_id, Username |-> r.username]
\* The zero model.User.
NoUser == [ID |-> 0, TgUserID |-> 0, Username |-> ""]
\* model.NewUser
NewUser(tgUserID) == [ID |-> 0, TgUserID |-> tgUserID, Username |-> ""]

FetchUserByTgID(S, tgUserID) ==
    IF S.fault = "read" THEN [err |-> "io", user |-> NoUser]
    ELSE IF \E r \in S.users : r.tg_user_id = tgUserID
         THEN [err |-> "nil",
               user |-> UserOfRow(CHOOSE r \in S.users : r.tg_user_id = tgUserID)]
         ELSE [err |-> "ErrUserNotFound", user |-> NoUser]

FetchUserByID(S, userID) ==
    IF S.fault = "read" THEN [err |-> "io", user |-> NoUser]
    ELSE IF \E r \in S.users : r.id = userID
         THEN [err |-> "nil", user |-> UserOfRow(CHOOSE r \in S.users : r.id = userID)]
         ELSE [err |-> "ErrUserNotFound", user |-> NoUser]

\* SELECT ... WHERE username = ?: QueryRow takes the first row, the one with
\* the smallest id.
FetchUserByUsername(S, username) ==
    IF S.fault = "read" THEN [err |-> "io", user |-> NoUser]
    ELSE LET found == {r \in S.users : r.username = username} IN
         IF found # {}
         THEN [err |-> "nil",
               user |-> UserOfRow(CHOOSE r \in found : \A q \in found : r.id <= q.id)]
         ELSE [err |-> "ErrUserNotFound", user |-> NoUser]

\* INSERT INTO users; tg_user_id is UNIQUE.
CreateUser(S, user) ==
    IF S.fault = "write" \/ \E r \in S.users : r.tg_user_id = user.TgUserID
    THEN [S |-> S, err |-> "io", user |-> user]
    ELSE LET id == LastInsertId(S.users) IN
         [S |-> [S EXCEPT !.users = @ \cup
                     {[id |-> id, tg_user_id |-> user.TgUserID, username |-> user.Username]}],
          err |-> "nil",
          user |-> [user EXCEPT !.ID = id]]

\* UPDATE users SET full_name = ?, username = ?, is_active = ? WHERE id = ?
UpdateUser(S, user) ==
    LET T == [S EXCEPT !.calls = Append(@, "UpdateUser")] IN
    IF S.fault \in {"write", "UpdateUser"} THEN [S |-> T, err |-> "io"]
    ELSE [S |-> [T EXCEPT !.users =
                    {IF r.id = user.ID THEN [r EXCEPT !.username = user.Username] ELSE r
                       : r \in @}],
          err |-> "nil"]

FetchUserRoleInProject(S, projectID, userID) ==
    IF S.fault = "read" THEN [err |-> "io", role |-> ""]
    ELSE LET found == {r \in S.userProjects :
                          r.project_id = projectID /\ r.user_id = userID} IN
         IF found # {}
         THEN [err |-> "nil", role |-> (CHOOSE r \in found : TRUE).user_role]
         ELSE [err |-> "ErrUserNotFound", role |-> ""]

\* INSERT INTO user_projects; (project_id, user_id) is the primary key.
AddUserToProject(S, projectID, userID, role) ==
    IF S.fault = "write"
       \/ \E r \in S.userProjects : r.project_id = projectID /\ r.user_id = userID
    THEN [S |-> S, err |-> "io"]
    ELSE [S |-> [S EXCEPT !.userProjects = @ \cup
                    {[project_id |-> projectID, user_id |-> userID, user_role |-> role]}],
          err |-> "nil"]

\* UPDATE user_projects SET user_role = ? WHERE project_id = ? AND user_id = ?
UpdateUserRoleInProject(S, projectID, userID, role) ==
    IF S.fault = "write" THEN [S |-> S, err |-> "io"]
    ELSE [S |-> [S EXCEPT !.userProjects =
                    {IF r.project_id = projectID /\ r.user_id = userID
                     THEN [r EXCEPT !.user_role = role] ELSE r : r \in @}],
          err |-> "nil"]

\* SELECT COUNT(*) FROM user_projects WHERE project_id = ?
CountUsersInProject(S, projectID) ==
    IF S.fault = "read" THEN [err |-> "io", count |-> 0]
    ELSE [err |-> "nil",
          count |-> Cardinality({r \in S.userProjects : r.project_id = projectID})]

\* SELECT ... FROM users JOIN user_projects ... WHERE project_id = ?: the users
\* of the project (the list is only walked, its order decides nothing).
FetchUsersInProject(S, projectID) ==
    IF S.fault = "read" THEN [err |-> "io", users |-> {}]
    ELSE [err |-> "nil",
          users |-> {UserOfRow(r) : r \in
                        {u \in S.users : \E up \in S.userProjects :
                            up.project_id = projectID /\ up.user_id = u.id}}]

---------------------------------------------------------------------------
(* sqlite.TaskStorage.  A row of tasks keeps the fields of model.Task under *)
(* the names of the struct; UpdatedAt is the UTC day of the CURRENT_TIMESTAMP *)
(* the last INSERT or UPDATE of the row wrote.                              *)

TaskStatusBacklog == "backlog"
TaskStatusTODO == "todo"
TaskStatusInProgress == "in_progress"
TaskStatusDone == "done"
TaskStatusCancelled == "cancelled"
TaskStatusOnHold == "on_hold"

\* model.NewTask
NewTask(projectID, title, createdBy) ==
    [id |-> 0, ProjectID |-> projectID, Title |-> title, Description |-> "",
     Status |-> "", Deadline |-> ZeroTime, CreatedBy |-> createdBy,
     UpdatedBy |-> createdBy, Assignee |-> 0, UpdatedAt |-> 0]

\* INSERT INTO tasks
CreateTask(S, task) ==
    LET T == [S EXCEPT !.calls = Append(@, "CreateTask")] IN
    IF S.fault = "write" THEN [S |-> T, err |-> "io", task |-> task]
    ELSE LET id == LastInsertId(S.tasks) IN
         [S |-> [T EXCEPT !.tasks =
                     @ \cup {[task EXCEPT !.id = id, !.UpdatedAt = S.now.utc]}],
          err |-> "nil",
          task |-> [task EXCEPT !.id = id]]

\* UPDATE tasks SET title, description, status, deadline, updated_by, assignee,
\* updated_at = CURRENT_TIMESTAMP WHERE id = ?
UpdateTask(S, task) ==
    LET T == [S EXCEPT !.calls = Append(@, "UpdateTask")] IN
    IF S.fault = "write" THEN [S |-> T, err |-> "io"]
    ELSE [S |-> [T EXCEPT !.tasks =
                    {IF r.id = task.id
                     THEN [r EXCEPT !.Title = task.Title, !.Description = task.Description,
                                    !.Status = task.Status, !.Deadline = task.Deadline,
                                    !.UpdatedBy = task.UpdatedBy, !.Assignee = task.Assignee,
                                    !.UpdatedAt = S.now.utc]
                     ELSE r : r \in @}],
          err |-> "nil"]

\* SELECT ... FROM tasks WHERE id = ?: every failure, not-found included, is
\* an error without a sentinel.
GetTaskByID(S, id) ==
    IF S.fault = "read" \/ ~ \E r \in S.tasks : r.id = id
    THEN [err |-> "task not found", task |-> NewTask(0, "", 0)]
    ELSE [err |-> "nil", task |-> CHOOSE r \in S.tasks : r.id = id]

---------------------------------------------------------------------------
(* Bot: the manager check, the main menu, the commands.                    *)

\* A faulty CheckUserAccess, to test that a property depends on it: the list
\* of allowed users is not read.
CheckUserAccessAllowsAll(S, userID) == S.cfg.Public \/ userID \in TgUsers

\* Bot.CheckUserAccess
CheckUserAccess(S, userID) == S.cfg.Public \/ userID \in S.cfg.AllowedTgIDs

\* Bot.isUserManager: (bool, error).
isUserManager(S, chatID, userID) ==
    LET p == FetchProjectByChatID(S, chatID)
        u == FetchUserByTgID(S, userID)
        r == FetchUserRoleInProject(S, p.project.ID, u.user.ID)
    IN  IF p.err # "nil" THEN [ok |-> FALSE, err |-> p.err]
        ELSE IF u.err # "nil" THEN [ok |-> FALSE, err |-> u.err]
        ELSE IF r.err # "nil" THEN [ok |-> FALSE, err |-> r.err]
        ELSE [ok |-> r.role = UserProjectRoleManager, err |-> "nil"]

\* Bot.showMainMenuForUser: the manager buttons are shown to a manager only.
showMainMenuForUser(S, chatID, userID) ==
    LET p == FetchProjectByChatID(S, chatID)
        m == isUserManager(S, chatID, userID)
    IN  IF p.err # "nil" THEN Return(S, p.err)
        ELSE IF userID # 0 /\ m.err = "nil" /\ m.ok
             THEN Send(S, "main menu with manager buttons")
             ELSE Send(S, "main menu")

\* Bot.statusCommand
statusCommand(S) == Send(S, "status")

\* Bot.startCommand
startCommand(S, chatID, userID) ==
    LET p == FetchProjectByChatID(S, chatID) IN
    IF p.err = "nil"
    THEN showMainMenuForUser(Send(S, "project already created"), chatID, userID)
    ELSE IF p.err # "ErrProjectNotFound" THEN Return(S, "could not check project")
    ELSE Send(S, "confirm project creation")

\* Bot.homeCommand
homeCommand(S, chatID, userID) ==
    LET p == FetchProjectByChatID(S, chatID) IN
    IF p.err = "ErrProjectNotFound" THEN startCommand(S, chatID, userID)
    ELSE IF p.err # "nil" THEN Return(S, p.err)
    ELSE showMainMenuForUser(S, chatID, userID)

\* A faulty project step of createProjectCommand, to test that a property
\* depends on it: a project that exists gets the title of the chat again.
createProjectCommandProjectRetitled(S, chatID) ==
    LET f == FetchProjectByChatID(S, chatID)
        c == CreateProject(S, NewProject(ChatTitle(chatID), chatID))
        u == UpdateProject(S, [f.project EXCEPT !.Title = ChatTitle(chatID)])
    IN  IF f.err = "ErrProjectNotFound"
        THEN IF c.err # "nil"
             THEN [S |-> S, err |-> "could not create project", prj |-> c.project]
             ELSE [S |-> c.S, err |-> "nil", prj |-> c.project]
        ELSE IF f.err # "nil"
             THEN [S |-> S, err |-> "could not fetch project", prj |-> f.project]
             ELSE [S |-> u.S, err |-> "nil", prj |-> f.project]

\* Bot.createProjectCommand, the project: fetched by chat id, created when
\* there is none.  The result carries the project and the error to return.
createProjectCommandProject(S, chatID) ==
    LET f == FetchProjectByChatID(S, chatID)
        c == CreateProject(S, NewProject(ChatTitle(chatID), chatID))
    IN  IF f.err = "ErrProjectNotFound"
        THEN IF c.err # "nil"
             THEN [S |-> S, err |-> "could not create project", prj |-> c.project]
             ELSE [S |-> c.S, err |-> "nil", prj |-> c.project]
        ELSE IF f.err # "nil"
             THEN [S |-> S, err |-> "could not fetch project", prj |-> f.project]
             ELSE [S |-> S, err |-> "nil", prj |-> f.project]

\* A faulty user step of createProjectCommand, to test that a property depends
\* on it: the stored username is written also when it did not change.
createProjectCommandUserAlwaysUpdates(S, fromID, fromUserName) ==
    LET f == FetchUserByTgID(S, fromID)
        c == CreateUser(S, [NewUser(fromID) EXCEPT !.Username = fromUserName])
        changed == [f.user EXCEPT !.Username = fromUserName]
        u == UpdateUser(S, changed)
    IN  IF f.err = "ErrUserNotFound"
        THEN IF c.err # "nil"
             THEN [S |-> S, err |-> "could not create user", user |-> c.user]
             ELSE [S |-> c.S, err |-> "nil", user |-> c.user]
        ELSE IF f.err # "nil"
             THEN [S |-> S, err |-> "could not fetch user", user |-> f.user]
             ELSE [S |-> u.S, err |-> "nil", user |-> changed]

\* Bot.createProjectCommand, the user: fetched by platform id, created when
\* there is none, the stored username updated when it differs (a failure of
\* that update is logged only).
createProjectCommandUser(S, fromID, fromUserName) ==
    LET f == FetchUserByTgID(S, fromID)
        c == CreateUser(S, [NewUser(fromID) EXCEPT !.Username = fromUserName])
        changed == [f.user EXCEPT !.Username = fromUserName]
        u == UpdateUser(S, changed)
    IN  IF f.err = "ErrUserNotFound"
        THEN IF c.err # "nil"
             THEN [S |-> S, err |-> "could not create user", user |-> c.user]
             ELSE [S |-> c.S, err |-> "nil", user |-> c.user]
        ELSE IF f.err # "nil"
             THEN [S |-> S, err |-> "could not fetch user", user |-> f.user]
             ELSE IF f.user.Username # fromUserName
                  THEN [S |-> u.S, err |-> "nil", user |-> changed]
                  ELSE [S |-> S, err |-> "nil", user |-> f.user]

\* A faulty role step of createProjectCommand, to test that a property depends
\* on it: the role of a user who has one is written again from the count.
createProjectCommandRoleRewritten(S, projectID, userID) ==
    LET f == FetchUserRoleInProject(S, projectID, userID)
        n == CountUsersInProject(S, projectID)
        userRole == IF n.count = 0 THEN UserProjectRoleManager ELSE UserProjectRoleMember
        a == AddUserToProject(S, projectID, userID, userRole)
        w == UpdateUserRoleInProject(S, projectID, userID, userRole)
    IN  IF f.err = "ErrUserNotFound"
        THEN IF n.err # "nil"
             THEN [S |-> S, err |-> "could not count users in project",
                   userRole |-> "", userAdded |-> FALSE]
             ELSE IF a.err # "nil"
                  THEN [S |-> S, err |-> "could not add user to project",
                        userRole |-> userRole, userAdded |-> FALSE]
                  ELSE [S |-> a.S, err |-> "nil", userRole |-> userRole, userAdded |-> TRUE]
        ELSE IF f.err # "nil"
             THEN [S |-> S, err |-> "could not fetch user role for project",
                   userRole |-> "", userAdded |-> FALSE]
             ELSE [S |-> w.S, err |-> "nil", userRole |-> userRole, userAdded |-> FALSE]

\* A faulty role step of createProjectCommand, to test that a property depends
\* on it: the users of the project are not counted, and a user without role
\* is added as member.
createProjectCommandRoleAlwaysMember(S, projectID, userID) ==
    LET f == FetchUserRoleInProject(S, projectID, userID)
        n == CountUsersInProject(S, projectID)
        userRole == UserProjectRoleMember
        a == AddUserToProject(S, projectID, userID, userRole)
    IN  IF f.err = "ErrUserNotFound"
        THEN IF n.err # "nil"
             THEN [S |-> S, err |-> "could not count users in project",
                   userRole |-> "", userAdded |-> FALSE]
             ELSE IF a.err # "nil"
                  THEN [S |-> S, err |-> "could not add user to project",
                        userRole |-> userRole, userAdded |-> FALSE]
                  ELSE [S |-> a.S, err |-> "nil", userRole |-> userRole, userAdded |-> TRUE]
        ELSE IF f.err # "nil"
             THEN [S |-> S, err |-> "could not fetch user role for project",
                   userRole |-> "", userAdded |-> FALSE]
             ELSE [S |-> S, err |-> "nil", userRole |-> f.role, userAdded |-> FALSE]

\* Bot.createProjectCommand, the role: fetched, and when the user has none the
\* user is added as manager if the project counts no user, as member otherwise.
createProjectCommandRole(S, projectID, userID) ==
    LET f == FetchUserRoleInProject(S, projectID, userID)
        n == CountUsersInProject(S, projectID)
        userRole == IF n.count = 0 THEN UserProjectRoleManager ELSE UserProjectRoleMember
        a == AddUserToProject(S, projectID, userID, userRole)
    IN  IF f.err = "ErrUserNotFound"
        THEN IF n.err # "nil"
             THEN [S |-> S, err |-> "could not count users in project",
                   userRole |-> "", userAdded |-> FALSE]
             ELSE IF a.err # "nil"
                  THEN [S |-> S, err |-> "could not add user to project",
                        userRole |-> userRole, userAdded |-> FALSE]
                  ELSE [S |-> a.S, err |-> "nil", userRole |-> userRole, userAdded |-> TRUE]
        ELSE IF f.err # "nil"
             THEN [S |-> S, err |-> "could not fetch user role for project",
                   userRole |-> "", userAdded |-> FALSE]
             ELSE [S |-> S, err |-> "nil", userRole |-> f.role, userAdded |-> FALSE]

\* Bot.createProjectCommand
createProjectCommand(S, chatID, fromID, fromUserName) ==
    LET p == createProjectCommandProject(S, chatID)
        u == createProjectCommandUser(p.S, fromID, fromUserName)
        r == createProjectCommandRole(u.S, p.prj.ID, u.user.ID)
    IN  IF p.err # "nil" THEN Return(p.S, p.err)
        ELSE IF u.err # "nil" THEN Return(u.S, u.err)
        ELSE IF r.err # "nil" THEN Return(r.S, r.err)
        ELSE showMainMenuForUser(
                 Send(r.S, IF r.userAdded THEN "project created, you are added"
                                          ELSE "you are already in the project"),
                 chatID, fromID)

\* Bot.renameProjectCommand
renameProjectCommand(S) == S

---------------------------------------------------------------------------
(* Bot: the task creation flow.                                            *)

TaskStepTitle == 0
TaskStepDescription == 1
TaskStepAssignee == 2
TaskStepDeadline == 3

\* A faulty startTaskCreation, to test that a property depends on it: without
\* a project in the chat the session is opened all the same.
startTaskCreationWithoutProject(S, chatID, userID) ==
    LET p == FetchProjectByChatID(S, chatID) IN
    IF p.err \notin {"nil", "ErrProjectNotFound"} THEN Return(S, "could not fetch project")
    ELSE Send([S EXCEPT !.taskCreationState = MapSet(@, userID,
                   [Step |-> TaskStepTitle, ProjectID |-> p.project.ID, Title |-> "",
                    Description |-> "", CreatedBy |-> userID, Assignee |-> 0])],
              "step 1/4: enter the title")

\* Bot.startTaskCreation
startTaskCreation(S, chatID, userID) ==
    LET p == FetchProjectByChatID(S, chatID) IN
    IF p.err = "ErrProjectNotFound" THEN Send(S, "project not found, create it with /start")
    ELSE IF p.err # "nil" THEN Return(S, "could not fetch project")
    ELSE Send([S EXCEPT !.taskCreationState = MapSet(@, userID,
                   [Step |-> TaskStepTitle, ProjectID |-> p.project.ID, Title |-> "",
                    Description |-> "", CreatedBy |-> userID, Assignee |-> 0])],
              "step 1/4: enter the title")

\* Bot.showDeadlineSelection
showDeadlineSelection(S) == Send(S, "step 4/4: set the deadline")

\* Bot.handleAssigneeStep; the state is the sender's entry of taskCreationState.
handleAssigneeStep(S, chatID, userID, assigneeText) ==
    LET state == S.taskCreationState[userID]
        advance(assignee) ==
            showDeadlineSelection(
                [S EXCEPT !.taskCreationState[userID] =
                    [state EXCEPT !.Assignee = assignee, !.Step = TaskStepDeadline]])
        currentUser == FetchUserByTgID(S, userID)
        username == Mention(assigneeText)
        assigneeUser == FetchUserByUsername(S, username)
        role == FetchUserRoleInProject(S, state.ProjectID, assigneeUser.user.ID)
    IN  IF assigneeText = "-" \/ assigneeText = "" THEN advance(state.Assignee)
        ELSE IF isSelfAssignment(assigneeText)
        THEN IF currentUser.err # "nil" THEN Return(S, "could not fetch current user")
             ELSE advance(currentUser.user.ID)
        ELSE IF username = "" THEN advance(state.Assignee)
        ELSE IF username = BotUserName THEN Send(S, "a task cannot be assigned to the bot")
        ELSE IF assigneeUser.err = "ErrUserNotFound" THEN Send(S, "user not found")
        ELSE IF assigneeUser.err # "nil" THEN Return(S, "could not fetch user by username")
        ELSE IF role.err = "ErrUserNotFound" THEN Send(S, "user is not a participant of the project")
        ELSE IF role.err # "nil" THEN Return(S, "could not check user role")
        ELSE advance(assigneeUser.user.ID)

\* A faulty finalizeTaskCreation, to test that a property depends on it: the
\* session of the sender is not deleted when the task was created.
finalizeTaskCreationKeepsSession(S, chatID, userID, deadlineText) ==
    LET state == S.taskCreationState[userID]
        deadline == ParseDate(deadlineText)
        given == deadlineText # "-" /\ deadlineText # ""
        task == [NewTask(state.ProjectID, state.Title, state.CreatedBy) EXCEPT
                    !.Description = state.Description,
                    !.Status = TaskStatusTODO,
                    !.Assignee = state.Assignee,
                    !.Deadline = IF given THEN EndOfDay(deadline.day) ELSE ZeroTime]
        c == CreateTask(S, task)
    IN  IF given /\ ~deadline.ok THEN Send(S, "wrong date format")
        ELSE IF given /\ deadline.day < S.now.utc
             THEN Send(S, "the deadline cannot be in the past")
        ELSE IF c.err # "nil"
        THEN Send([c.S EXCEPT !.taskCreationState = MapDelete(@, userID)],
                  "error while creating the task")
        ELSE showMainMenuForUser(Send(c.S, "task created"), chatID, userID)

\* Bot.finalizeTaskCreation; the state is the sender's entry of taskCreationState.
finalizeTaskCreation(S, chatID, userID, deadlineText) ==
    LET state == S.taskCreationState[userID]
        deadline == ParseDate(deadlineText)
        given == deadlineText # "-" /\ deadlineText # ""
        task == [NewTask(state.ProjectID, state.Title, state.CreatedBy) EXCEPT
                    !.Description = state.Description,
                    !.Status = TaskStatusTODO,
                    !.Assignee = state.Assignee,
                    !.Deadline = IF given THEN EndOfDay(deadline.day) ELSE ZeroTime]
        c == CreateTask(S, task)
    IN  IF given /\ ~deadline.ok THEN Send(S, "wrong date format")
        ELSE IF given /\ deadline.day < S.now.utc
             THEN Send(S, "the deadline cannot be in the past")
        ELSE IF c.err # "nil"
        THEN Send([c.S EXCEPT !.taskCreationState = MapDelete(@, userID)],
                  "error while creating the task")
        ELSE showMainMenuForUser(
                 Send([c.S EXCEPT !.taskCreationState = MapDelete(@, userID)], "task created"),
                 chatID, userID)

\* Bot.handleTaskCreationMessage; the state is the sender's entry of
\* taskCreationState, which Bot.Start found before it called the handler.
handleTaskCreationMessage(S, chatID, userID, messageText) ==
    LET state == S.taskCreationState[userID]
        text == TrimSpace(messageText)
    IN  IF text = "/cancel" \/ text = "otmena"
        THEN Send([S EXCEPT !.taskCreationState = MapDelete(@, userID)],
                  "task creation cancelled")
        ELSE IF state.Step = TaskStepTitle
        THEN IF text = "" THEN Send(S, "the title cannot be empty")
             ELSE Send([S EXCEPT !.taskCreationState[userID] =
                           [state EXCEPT !.Title = text, !.Step = TaskStepDescription]],
                       "step 2/4: enter the description")
        ELSE IF state.Step = TaskStepDescription
        THEN Send([S EXCEPT !.taskCreationState[userID] =
                      [state EXCEPT !.Description = IF text # "-" THEN text ELSE @,
                                    !.Step = TaskStepAssignee]],
                  "step 3/4: set the assignee")
        ELSE IF state.Step = TaskStepAssignee THEN handleAssigneeStep(S, chatID, userID, text)
        ELSE IF state.Step = TaskStepDeadline THEN finalizeTaskCreation(S, chatID, userID, text)
        ELSE S

\* A faulty handleCalendarCallback, to test that a property depends on it: the
\* picked date is dropped and the task is stored without deadline.
handleCalendarCallbackDropsDate(S, chatID, userID, parts, dateStr) ==
    IF userID \notin DOMAIN S.taskCreationState
       \/ S.taskCreationState[userID].Step # TaskStepDeadline THEN S
    ELSE IF Len(parts) < 2 THEN S
    ELSE IF parts[2] = "ignore" THEN S
    ELSE IF parts[2] = "skip" THEN finalizeTaskCreation(S, chatID, userID, "-")
    ELSE IF parts[2] = "month" THEN IF Len(parts) # 4 THEN S ELSE Send(S, "calendar month")
    ELSE IF parts[2] = "date"
    THEN IF Len(parts) # 5 THEN S ELSE finalizeTaskCreation(S, chatID, userID, "-")
    ELSE S

\* Bot.handleCalendarCallback on the split payload: parts is
\* strings.Split(data, "_"), dateStr the text time.Format gives the picked date.
handleCalendarCallback(S, chatID, userID, parts, dateStr) ==
    IF userID \notin DOMAIN S.taskCreationState
       \/ S.taskCreationState[userID].Step # TaskStepDeadline THEN S
    ELSE IF Len(parts) < 2 THEN S
    ELSE IF parts[2] = "ignore" THEN S
    ELSE IF parts[2] = "skip" THEN finalizeTaskCreation(S, chatID, userID, "-")
    ELSE IF parts[2] = "month" THEN IF Len(parts) # 4 THEN S ELSE Send(S, "calendar month")
    ELSE IF parts[2] = "date"
    THEN IF Len(parts) # 5 THEN S ELSE finalizeTaskCreation(S, chatID, userID, dateStr)
    ELSE S

---------------------------------------------------------------------------
(* Bot: the task views and the task edit flow.                             *)

TaskEditFieldTitle == "title"
TaskEditFieldDescription == "description"
TaskEditFieldStatus == "status"
TaskEditFieldDeadline == "deadline"
TaskEditFieldAssignee == "assignee"

\* Bot.showMyTasks: the list itself is one message.
showMyTasks(S, chatID, userID) ==
    LET p == FetchProjectByChatID(S, chatID)
        u == FetchUserByTgID(S, userID)
    IN  IF p.err = "ErrProjectNotFound" THEN Send(S, "project not found, create it with /start")
        ELSE IF p.err # "nil" THEN Return(S, "could not fetch project")
        ELSE IF u.err = "ErrUserNotFound" THEN Send(S, "user not found, register with /start")
        ELSE IF u.err # "nil" THEN Return(S, "could not fetch user")
        ELSE Send(S, "my tasks")

\* Bot.showTaskDetails
showTaskDetails(S, chatID, taskID) ==
    IF GetTaskByID(S, taskID).err # "nil" THEN Send(S, "task not found")
    ELSE Send(S, "task details")

\* Bot.showProjectTasks
showProjectTasks(S, chatID, userID) ==
    LET m == isUserManager(S, chatID, userID)
        p == FetchProjectByChatID(S, chatID)
    IN  IF m.err # "nil" THEN Return(S, "could not check user role")
        ELSE IF ~m.ok THEN Send(S, "denied: no right to view the project tasks")
        ELSE IF p.err = "ErrProjectNotFound"
             THEN Send(S, "project not found, create it with /start")
        ELSE IF p.err # "nil" THEN Return(S, "could not fetch project")
        ELSE Send(S, "project tasks")

\* Bot.startFieldEdit: the session is stored before the field is looked at.
startFieldEdit(S, chatID, userID, taskID, field) ==
    IF GetTaskByID(S, taskID).err # "nil" THEN Send(S, "task not found")
    ELSE LET T == [S EXCEPT !.taskEditState =
                      MapSet(@, userID, [Field |-> field, TaskID |-> taskID])]
         IN  IF field \in {TaskEditFieldTitle, TaskEditFieldDescription, TaskEditFieldStatus,
                           TaskEditFieldDeadline, TaskEditFieldAssignee}
             THEN Send(T, "edit prompt")
             ELSE Return(T, "unhandled field type")

\* Bot.updateTaskField, the assignee case: the new assignee, or the reply that
\* ends the handler (with the session deleted or kept).
updateTaskFieldAssignee(S, userID, state, newValue) ==
    LET currentUser == FetchUserByTgID(S, userID)
        projectTask == GetTaskByID(S, state.TaskID)
        selfRole == FetchUserRoleInProject(S, projectTask.task.ProjectID, currentUser.user.ID)
        username == Mention(newValue)
        assigneeUser == FetchUserByUsername(S, username)
        role == FetchUserRoleInProject(S, projectTask.task.ProjectID, assigneeUser.user.ID)
        dropped == [S EXCEPT !.taskEditState = MapDelete(@, userID)]
        stop(T) == [done |-> TRUE, S |-> T, assignee |-> 0]
    IN  IF isSelfAssignment(newValue)
        THEN IF currentUser.err # "nil" THEN stop(Return(S, "could not fetch current user"))
             ELSE IF projectTask.err # "nil" THEN stop(Return(S, "could not get task project"))
             ELSE IF selfRole.err = "ErrUserNotFound"
                  THEN stop(Send(dropped, "you are not a participant of the project"))
             ELSE IF selfRole.err # "nil" THEN stop(Return(S, "could not check user role"))
             ELSE [done |-> FALSE, S |-> S, assignee |-> currentUser.user.ID]
        ELSE IF username = ""
             THEN stop(Send(S, "wrong format, use @username or me"))
        ELSE IF username = BotUserName
             THEN stop(Send(dropped, "a task cannot be assigned to the bot"))
        ELSE IF assigneeUser.err = "ErrUserNotFound" THEN stop(Send(dropped, "user not found"))
        ELSE IF assigneeUser.err # "nil"
             THEN stop(Return(S, "could not fetch user by username"))
        ELSE IF projectTask.err # "nil" THEN stop(Return(S, "could not get task project"))
        ELSE IF role.err = "ErrUserNotFound"
             THEN stop(Send(dropped, "user is not a participant of the project"))
        ELSE IF role.err # "nil" THEN stop(Return(S, "could not check user role"))
        ELSE [done |-> FALSE, S |-> S, assignee |-> assigneeUser.user.ID]

\* Bot.updateTaskField; the state is the sender's entry of taskEditState.
updateTaskField(S, chatID, userID, newValue) ==
    LET state == S.taskEditState[userID]
        g == GetTaskByID(S, state.TaskID)
        dropped == [S EXCEPT !.taskEditState = MapDelete(@, userID)]
        a == updateTaskFieldAssignee(S, userID, state, newValue)
        task == CASE state.Field = TaskEditFieldTitle -> [g.task EXCEPT !.Title = newValue]
                  [] state.Field = TaskEditFieldDescription ->
                         [g.task EXCEPT !.Description = newValue]
                  [] state.Field = TaskEditFieldAssignee ->
                         [g.task EXCEPT !.Assignee = a.assignee]
                  [] OTHER -> g.task
        u == UpdateTask(S, task)
    IN  IF g.err # "nil" THEN Send(dropped, "error while fetching the task")
        ELSE IF state.Field = TaskEditFieldStatus
             THEN Send(dropped, "the status is changed with buttons")
        ELSE IF state.Field = TaskEditFieldAssignee /\ a.done THEN a.S
        ELSE IF u.err # "nil"
             THEN Send([u.S EXCEPT !.taskEditState = MapDelete(@, userID)],
                       "error while updating the task")
        ELSE showTaskDetails(
                 Send([u.S EXCEPT !.taskEditState = MapDelete(@, userID)], "field updated"),
                 chatID, state.TaskID)

\* Bot.handleTaskEditMessage
handleTaskEditMessage(S, chatID, userID, messageText) ==
    LET text == TrimSpace(messageText) IN
    IF text = "/cancel" \/ text = "otmena"
    THEN Send([S EXCEPT !.taskEditState = MapDelete(@, userID)], "editing cancelled")
    ELSE IF text = "" THEN Send(S, "the value cannot be empty")
    ELSE updateTaskField(S, chatID, userID, text)

\* A faulty clearTaskField, to test that a property depends on it: whatever
\* field is named, the description, the deadline and the assignee are cleared.
clearTaskFieldClearsAll(S, chatID, userID, taskID, field) ==
    LET dropped == [S EXCEPT !.taskEditState = MapDelete(@, userID)]
        g == GetTaskByID(dropped, taskID)
        task == [g.task EXCEPT !.Description = "", !.Deadline = ZeroTime, !.Assignee = 0]
        u == UpdateTask(dropped, task)
    IN  IF g.err # "nil" THEN Send(dropped, "task not found")
        ELSE IF field \notin {TaskEditFieldDescription, TaskEditFieldDeadline,
                              TaskEditFieldAssignee}
             THEN Send(dropped, "this field cannot be cleared")
        ELSE IF u.err # "nil" THEN Send(u.S, "error while updating the task")
        ELSE showTaskDetails(Send(u.S, "field cleared"), chatID, taskID)

\* Bot.clearTaskField
clearTaskField(S, chatID, userID, taskID, field) ==
    LET dropped == [S EXCEPT !.taskEditState = MapDelete(@, userID)]
        g == GetTaskByID(dropped, taskID)
        task == CASE field = TaskEditFieldDescription -> [g.task EXCEPT !.Description = ""]
                  [] field = TaskEditFieldDeadline -> [g.task EXCEPT !.Deadline = ZeroTime]
                  [] field = TaskEditFieldAssignee -> [g.task EXCEPT !.Assignee = 0]
                  [] OTHER -> g.task
        u == UpdateTask(dropped, task)
    IN  IF g.err # "nil" THEN Send(dropped, "task not found")
        ELSE IF field \notin {TaskEditFieldDescription, TaskEditFieldDeadline,
                              TaskEditFieldAssignee}
             THEN Send(dropped, "this field cannot be cleared")
        ELSE IF u.err # "nil" THEN Send(u.S, "error while updating the task")
        ELSE showTaskDetails(Send(u.S, "field cleared"), chatID, taskID)

\* Bot.setTaskStatus: the status is stored as given.
setTaskStatus(S, chatID, userID, taskID, newStatus) ==
    LET g == GetTaskByID(S, taskID)
        u == UpdateTask(S, [g.task EXCEPT !.Status = newStatus])
    IN  IF g.err # "nil" THEN Send(S, "task not found")
        ELSE IF u.err # "nil" THEN Send(u.S, "error while updating the task")
        ELSE showTaskDetails(Send(u.S, "status updated"), chatID, taskID)

---------------------------------------------------------------------------
(* Bot: project management.                                                *)

\* Bot.showProjectManagement
showProjectManagement(S, chatID, userID) ==
    LET m == isUserManager(S, chatID, userID)
        p == FetchProjectByChatID(S, chatID)
    IN  IF m.err # "nil" THEN Return(S, "could not check user role")
        ELSE IF ~m.ok THEN Send(S, "denied: no right to manage the project")
        ELSE IF p.err # "nil" THEN Return(S, "could not fetch project")
        ELSE Send(S, "project management")

\* Bot.startProjectRename
startProjectRename(S, chatID, userID) ==
    LET m == isUserManager(S, chatID, userID)
        p == FetchProjectByChatID(S, chatID)
    IN  IF m.err # "nil" THEN Return(S, "could not check user role")
        ELSE IF ~m.ok THEN Send(S, "denied: no right to rename the project")
        ELSE IF p.err # "nil" THEN Return(S, "could not fetch project")
        ELSE Send([S EXCEPT !.projectRenameState = MapSet(@, userID, TRUE)],
                  "enter the new project title")

\* Bot.handleProjectRenameMessage: the project is the one of the chat the
\* message came from.
handleProjectRenameMessage(S, chatID, userID, messageText) ==
    LET newTitle == TrimSpace(messageText)
        dropped == [S EXCEPT !.projectRenameState = MapDelete(@, userID)]
        p == FetchProjectByChatID(S, chatID)
        u == UpdateProject(dropped, [p.project EXCEPT !.Title = newTitle])
    IN  IF newTitle = "/cancel" \/ newTitle = "otmena"
        THEN Send(dropped, "project rename cancelled")
        ELSE IF newTitle = "" THEN Send(S, "the project title cannot be empty")
        ELSE IF p.err # "nil" THEN Return(dropped, "could not fetch project")
        ELSE IF u.err # "nil" THEN Send(u.S, "error while renaming the project")
        ELSE showProjectManagement(Send(u.S, "project renamed"), chatID, userID)

\* Bot.showAssignManager
showAssignManager(S, chatID, userID) ==
    LET m == isUserManager(S, chatID, userID)
        p == FetchProjectByChatID(S, chatID)
        projectUsers == FetchUsersInProject(S, p.project.ID)
        membersFound ==
            \E user \in projectUsers.users :
                LET r == FetchUserRoleInProject(S, p.project.ID, user.ID)
                IN  r.err = "nil" /\ r.role = UserProjectRoleMember
    IN  IF m.err # "nil" THEN Return(S, "could not check user role")
        ELSE IF ~m.ok THEN Send(S, "denied: no right to assign a manager")
        ELSE IF p.err # "nil" THEN Return(S, "could not fetch project")
        ELSE IF projectUsers.err # "nil" THEN Return(S, "could not fetch project users")
        ELSE IF ~membersFound THEN Send(S, "no members to promote")
        ELSE Send(S, "choose the member to promote")

\* Bot.confirmDeleteProject
confirmDeleteProject(S, chatID, userID) ==
    LET m == isUserManager(S, chatID, userID)
        p == FetchProjectByChatID(S, chatID)
    IN  IF m.err # "nil" THEN Return(S, "could not check user role")
        ELSE IF ~m.ok THEN Send(S, "denied: no right to delete the project")
        ELSE IF p.err # "nil" THEN Return(S, "could not fetch project")
        ELSE Send(S, "confirm project deletion")

\* A faulty promoteToManager, to test that a property depends on it: the
\* promoting manager hands the role over and becomes member.
promoteToManagerHandsOver(S, chatID, userID, targetUserID) ==
    LET m == isUserManager(S, chatID, userID)
        p == FetchProjectByChatID(S, chatID)
        targetUser == FetchUserByID(S, targetUserID)
        currentRole == FetchUserRoleInProject(S, p.project.ID, targetUserID)
        u == UpdateUserRoleInProject(S, p.project.ID, targetUserID, UserProjectRoleManager)
        d == UpdateUserRoleInProject(u.S, p.project.ID, FetchUserByTgID(S, userID).user.ID,
                                     UserProjectRoleMember)
    IN  IF m.err # "nil" THEN Return(S, "could not check user role")
        ELSE IF ~m.ok THEN Send(S, "denied: no right to assign a manager")
        ELSE IF p.err # "nil" THEN Return(S, "could not fetch project")
        ELSE IF targetUser.err # "nil" THEN Send(S, "user not found")
        ELSE IF currentRole.err # "nil"
             THEN Send(S, "user is not a participant of the project")
        ELSE IF currentRole.role # UserProjectRoleMember
             THEN Send(S, "user does not have the member role")
        ELSE IF u.err # "nil" THEN Send(S, "error while assigning the manager")
        ELSE showProjectManagement(Send(d.S, "user promoted to manager"), chatID, userID)

\* A faulty promoteToManager, to test that a property depends on it: the role
\* of the sender is not asked for.
promoteToManagerByAnyone(S, chatID, userID, targetUserID) ==
    LET m == isUserManager(S, chatID, userID)
        p == FetchProjectByChatID(S, chatID)
        targetUser == FetchUserByID(S, targetUserID)
        currentRole == FetchUserRoleInProject(S, p.project.ID, targetUserID)
        u == UpdateUserRoleInProject(S, p.project.ID, targetUserID, UserProjectRoleManager)
    IN  IF m.err # "nil" THEN Return(S, "could not check user role")
        ELSE IF p.err # "nil" THEN Return(S, "could not fetch project")
        ELSE IF targetUser.err # "nil" THEN Send(S, "user not found")
        ELSE IF currentRole.err # "nil"
             THEN Send(S, "user is not a participant of the project")
        ELSE IF currentRole.role # UserProjectRoleMember
             THEN Send(S, "user does not have the member role")
        ELSE IF u.err # "nil" THEN Send(S, "error while assigning the manager")
        ELSE showProjectManagement(Send(u.S, "user promoted to manager"), chatID, userID)

\* Bot.promoteToManager: targetUserID is an internal user id.
promoteToManager(S, chatID, userID, targetUserID) ==
    LET m == isUserManager(S, chatID, userID)
        p == FetchProjectByChatID(S, chatID)
        targetUser == FetchUserByID(S, targetUserID)
        currentRole == FetchUserRoleInProject(S, p.project.ID, targetUserID)
        u == UpdateUserRoleInProject(S, p.project.ID, targetUserID, UserProjectRoleManager)
    IN  IF m.err # "nil" THEN Return(S, "could not check user role")
        ELSE IF ~m.ok THEN Send(S, "denied: no right to assign a manager")
        ELSE IF p.err # "nil" THEN Return(S, "could not fetch project")
        ELSE IF targetUser.err # "nil" THEN Send(S, "user not found")
        ELSE IF currentRole.err # "nil"
             THEN Send(S, "user is not a participant of the project")
        ELSE IF currentRole.role # UserProjectRoleMember
             THEN Send(S, "user does not have the member role")
        ELSE IF u.err # "nil" THEN Send(S, "error while assigning the manager")
        ELSE showProjectManagement(Send(u.S, "user promoted to manager"), chatID, userID)

\* Bot.deleteProject
deleteProject(S, chatID, userID) ==
    LET m == isUserManager(S, chatID, userID)
        p == FetchProjectByChatID(S, chatID)
        d == DeleteProject(S, p.project.ID)
    IN  IF m.err # "nil" THEN Return(S, "could not check user role")
        ELSE IF ~m.ok THEN Send(S, "denied: no right to delete the project")
        ELSE IF p.err # "nil" THEN Return(S, "could not fetch project")
        ELSE IF d.err # "nil" THEN Send(S, "error while deleting the project")
        ELSE Send(d.S, "project deleted")

\* Bot.startProjectDescriptionEdit
startProjectDescriptionEdit(S, chatID, userID) ==
    LET m == isUserManager(S, chatID, userID)
        p == FetchProjectByChatID(S, chatID)
    IN  IF m.err # "nil" THEN Return(S, "could not check user role")
        ELSE IF ~m.ok THEN Send(S, "denied: no right to change the project description")
        ELSE IF p.err # "nil" THEN Return(S, "could not fetch project")
        ELSE Send([S EXCEPT !.projectDescriptionEditState = MapSet(@, userID, TRUE)],
                  "enter the new project description")

\* Bot.handleProjectDescriptionEditMessage: the project is the one of the chat
\* the message came from; UpdateProject stores the title and not the
\* description.
handleProjectDescriptionEditMessage(S, chatID, userID, messageText) ==
    LET newDescription == TrimSpace(messageText)
        dropped == [S EXCEPT !.projectDescriptionEditState = MapDelete(@, userID)]
        p == FetchProjectByChatID(S, chatID)
        project == [p.project EXCEPT
                       !.Description = IF newDescription = "-" THEN "" ELSE newDescription]
        u == UpdateProject(dropped, project)
    IN  IF newDescription = "/cancel" \/ newDescription = "otmena"
        THEN Send(dropped, "project description edit cancelled")
        ELSE IF p.err # "nil" THEN Return(dropped, "could not fetch project")
        ELSE IF u.err # "nil"
             THEN Send(u.S, "error while changing the project description")
        ELSE showProjectManagement(
                 Send(u.S, IF p.project.Description = "" /\ project.Description # ""
                           THEN "project description added"
                           ELSE IF p.project.Description # "" /\ project.Description = ""
                           THEN "project description cleared"
                           ELSE "project description changed"),
                 chatID, userID)

---------------------------------------------------------------------------
(* Bot: the callback router.  The payload of a button is a string; the     *)
(* string functions of the router are given by their value on the payloads *)
(* of the model.                                                           *)

\* The first of the router's prefixes the payload starts with ("" when none),
\* and strings.Split(strings.TrimPrefix(data, prefix), "_").  For the prefix
\* "cal_" the handler splits the whole payload instead.
CallbackTable ==
    { [data |-> "cal_skip",     prefix |-> "cal_", parts |-> <<"cal", "skip">>],
      [data |-> "cal_ignore",   prefix |-> "cal_", parts |-> <<"cal", "ignore">>],
      [data |-> "cal_month_2030_2", prefix |-> "cal_",
       parts |-> <<"cal", "month", "2030", "2">>],
      [data |-> "cal_date_2030_1_9", prefix |-> "cal_",
       parts |-> <<"cal", "date", "2030", "1", "9">>],
      [data |-> "cal_date_2030_1_11", prefix |-> "cal_",
       parts |-> <<"cal", "date", "2030", "1", "11">>],
      [data |-> "cal_date_2030_1", prefix |-> "cal_",
       parts |-> <<"cal", "date", "2030", "1">>],
      [data |-> "task_1", prefix |-> "task_", parts |-> <<"1">>],
      [data |-> "task_2", prefix |-> "task_", parts |-> <<"2">>],
      [data |-> "task_x", prefix |-> "task_", parts |-> <<"x">>],
      [data |-> "edit_field_1_title", prefix |-> "edit_field_", parts |-> <<"1", "title">>],
      [data |-> "edit_field_1_description", prefix |-> "edit_field_",
       parts |-> <<"1", "description">>],
      [data |-> "edit_field_1_status", prefix |-> "edit_field_", parts |-> <<"1", "status">>],
      [data |-> "edit_field_1_deadline", prefix |-> "edit_field_",
       parts |-> <<"1", "deadline">>],
      [data |-> "edit_field_1_assignee", prefix |-> "edit_field_",
       parts |-> <<"1", "assignee">>],
      [data |-> "edit_field_2_title", prefix |-> "edit_field_", parts |-> <<"2", "title">>],
      [data |-> "edit_field_1_bogus", prefix |-> "edit_field_", parts |-> <<"1", "bogus">>],
      [data |-> "edit_field_1", prefix |-> "edit_field_", parts |-> <<"1">>],
      [data |-> "edit_field_x_title", prefix |-> "edit_field_", parts |-> <<"x", "title">>],
      [data |-> "clear_field_1_description", prefix |-> "clear_field_",
       parts |-> <<"1", "description">>],
      [data |-> "clear_field_1_deadline", prefix |-> "clear_field_",
       parts |-> <<"1", "deadline">>],
      [data |-> "clear_field_1_assignee", prefix |-> "clear_field_",
       parts |-> <<"1", "assignee">>],
      [data |-> "clear_field_1_title", prefix |-> "clear_field_", parts |-> <<"1", "title">>],
      [data |-> "clear_field_1_status", prefix |-> "clear_field_",
       parts |-> <<"1", "status">>],
      [data |-> "clear_field_1", prefix |-> "clear_field_", parts |-> <<"1">>],
      [data |-> "set_status_1_done", prefix |-> "set_status_", parts |-> <<"1", "done">>],
      [data |-> "set_status_1_in_progress", prefix |-> "set_status_",
       parts |-> <<"1", "in", "progress">>],
      [data |-> "set_status_1_bogus", prefix |-> "set_status_", parts |-> <<"1", "bogus">>],
      [data |-> "set_status_1", prefix |-> "set_status_", parts |-> <<"1">>],
      [data |-> "promote_to_manager_1", prefix |-> "promote_to_manager_", parts |-> <<"1">>],
      [data |-> "promote_to_manager_2", prefix |-> "promote_to_manager_", parts |-> <<"2">>],
      [data |-> "promote_to_manager_x", prefix |-> "promote_to_manager_", parts |-> <<"x">>] }

\* strings.HasPrefix against the router's prefixes, in the router's order.
CallbackPrefix(data) ==
    IF \E r \in CallbackTable : r.data = data
    THEN (CHOOSE r \in CallbackTable : r.data = data).prefix ELSE ""

\* strings.Split of the payload (see CallbackTable).
CallbackParts(data) ==
    IF \E r \in CallbackTable : r.data = data
    THEN (CHOOSE r \in CallbackTable : r.data = data).parts ELSE <<data>>

\* strconv.Atoi
Atoi(str) ==
    CASE str = "1" -> [ok |-> TRUE, n |-> 1]
      [] str = "2" -> [ok |-> TRUE, n |-> 2]
      [] str = "3" -> [ok |-> TRUE, n |-> 3]
      [] OTHER     -> [ok |-> FALSE, n |-> 0]

\* strings.Join(parts[1:], "_") of a set_status payload.
JoinStatus(parts) ==
    IF Len(parts) = 3 /\ parts[2] = "in" /\ parts[3] = "progress" THEN "in_progress"
    ELSE parts[2]

\* time.Date(year, month, day, ...).Format("02.01.2006") of a cal_date payload.
FormatDate(parts) ==
    IF Len(parts) # 5 THEN ""
    ELSE IF parts[5] = "9" THEN "09.01.2030"
    ELSE IF parts[5] = "11" THEN "11.01.2030"
    ELSE ""

\* Bot.handleCallbackQuery
handleCallbackQuery(S, chatID, userID, data) ==
    LET prefix == CallbackPrefix(data)
        parts == CallbackParts(data)
        id == Atoi(parts[1])
    IN  CASE data \in {"cmd_create_project", "confirm_create_project"} ->
                 createProjectCommand(S, chatID, userID, UserNameOf(userID))
          [] data = "cmd_create_task" -> startTaskCreation(S, chatID, userID)
          [] data = "cmd_my_tasks" -> showMyTasks(S, chatID, userID)
          [] data = "cmd_project_tasks" -> showProjectTasks(S, chatID, userID)
          [] data = "cmd_back_to_menu" -> showMainMenuForUser(S, chatID, userID)
          [] data = "cmd_status" -> Send(S, "status")
          [] data = "cancel_create_project" -> Send(S, "project creation cancelled")
          [] data = "cmd_project_management" -> showProjectManagement(S, chatID, userID)
          [] data = "cmd_rename_project" -> startProjectRename(S, chatID, userID)
          [] data = "cmd_edit_project_description" ->
                 startProjectDescriptionEdit(S, chatID, userID)
          [] data = "cmd_assign_manager" -> showAssignManager(S, chatID, userID)
          [] data = "cmd_delete_project" -> confirmDeleteProject(S, chatID, userID)
          [] prefix = "cal_" ->
                 handleCalendarCallback(S, chatID, userID, parts, FormatDate(parts))
          [] prefix = "task_" ->
                 IF ~id.ok THEN Return(S, "invalid task ID")
                 ELSE showTaskDetails(S, chatID, id.n)
          [] prefix = "edit_field_" ->
                 IF Len(parts) # 2 THEN Return(S, "invalid edit field format")
                 ELSE IF ~id.ok THEN Return(S, "invalid task ID")
                 ELSE startFieldEdit(S, chatID, userID, id.n, parts[2])
          [] prefix = "clear_field_" ->
                 IF Len(parts) # 2 THEN Return(S, "invalid clear field format")
                 ELSE IF ~id.ok THEN Return(S, "invalid task ID")
                 ELSE clearTaskField(S, chatID, userID, id.n, parts[2])
          [] prefix = "set_status_" ->
                 IF Len(parts) < 2 THEN Return(S, "invalid set status format")
                 ELSE IF ~id.ok THEN Return(S, "invalid task ID")
                 ELSE setTaskStatus(S, chatID, userID, id.n, JoinStatus(parts))
          [] prefix = "promote_to_manager_" ->
                 IF ~id.ok THEN Return(S, "invalid user ID")
                 ELSE promoteToManager(S, chatID, userID, id.n)
          [] data = "confirm_delete_project" -> deleteProject(S, chatID, userID)
          [] OTHER -> S

---------------------------------------------------------------------------
(* Bot: the command router and the dispatch loop.                          *)

\* Bot.handleCommand on update.Message.Command().
handleCommand(S, chatID, userID, command) ==
    CASE command = "start" -> startCommand(S, chatID, userID)
      [] command = "create_project" ->
             createProjectCommand(S, chatID, userID, UserNameOf(userID))
      [] command = "create_task" -> startTaskCreation(S, chatID, userID)
      [] command = "rename_project" -> renameProjectCommand(S)
      [] command = "status" -> statusCommand(S)
      [] command = "home" -> homeCommand(S, chatID, userID)
      [] OTHER -> Send(S, "unknown command")

\* An update: a text message or a button press of a user in a chat.
MessageUpdate(chatID, userID, text) ==
    [kind |-> "message", chat |-> chatID, from |-> userID, text |-> text]
CallbackUpdate(chatID, userID, data) ==
    [kind |-> "callback", chat |-> chatID, from |-> userID, text |-> data]

\* The branch of Bot.Start's loop body a handled update took.
Routed(S, r) == [S EXCEPT !.route = r]

\* A faulty session lookup, to test that a property depends on the lookup: it
\* does not ask taskEditState.
SessionOfWithoutTaskEdit(S, userID) ==
    IF userID \in DOMAIN S.taskCreationState THEN "taskCreation"
    ELSE IF userID \in DOMAIN S.projectRenameState THEN "projectRename"
    ELSE IF userID \in DOMAIN S.projectDescriptionEditState THEN "projectDescriptionEdit"
    ELSE "none"

\* Bot.Start, the session lookup: the first of the four session maps, in the
\* order the loop asks them, that holds an entry of the sender ("none" when no
\* map does).
SessionOf(S, userID) ==
    IF userID \in DOMAIN S.taskCreationState THEN "taskCreation"
    ELSE IF userID \in DOMAIN S.taskEditState THEN "taskEdit"
    ELSE IF userID \in DOMAIN S.projectRenameState THEN "projectRename"
    ELSE IF userID \in DOMAIN S.projectDescriptionEditState THEN "projectDescriptionEdit"
    ELSE "none"

\* One pass of the loop of Bot.Start: the handling of one update.  An error a
\* handler returns is logged, and the loop goes on.
Start(S, update) ==
    LET c == update.chat
        u == update.from
        flow == SessionOf(S, u)
        pc == parseCommand(update.text, BotUserName)
    IN  IF ~CheckUserAccess(S, u) THEN Routed(Send(S, "access denied"), "denied")
        ELSE IF update.kind = "callback"
             THEN handleCallbackQuery(Routed(S, "callback"), c, u, update.text)
        ELSE IF flow = "taskCreation"
             THEN handleTaskCreationMessage(Routed(S, flow), c, u, update.text)
        ELSE IF flow = "taskEdit"
             THEN handleTaskEditMessage(Routed(S, flow), c, u, update.text)
        ELSE IF flow = "projectRename"
             THEN handleProjectRenameMessage(Routed(S, flow), c, u, update.text)
        ELSE IF flow = "projectDescriptionEdit"
             THEN handleProjectDescriptionEditMessage(Routed(S, flow), c, u, update.text)
        ELSE IF ~IsCommand(update.text) /\ pc.ok
             THEN handleCommand(Routed(S, "command"), c, u, Command(Slash(pc.command)))
        ELSE handleCommand(Routed(S, "command"), c, u, Command(update.text))

---------------------------------------------------------------------------
(* filterRecentTasks.  A task is what the function reads of model.Task:    *)
(* Status and UpdatedAt; a time is a number of hours.                      *)

\* The length of time.Now().AddDate(0, 0, -3), in hours.
ThreeDays == 72

\* A faulty filterRecentTasks, to test that a property depends on it: a task
\* updated exactly three days ago counts as recent.
RECURSIVE filterRecentTasksFromInclusive(_, _, _, _)
filterRecentTasksFromInclusive(listed, i, threeDaysAgo, filteredTasks) ==
    IF i > Len(listed) THEN filteredTasks
    ELSE LET task == listed[i] IN
         IF (task.Status # TaskStatusDone /\ task.Status # TaskStatusCancelled)
               \/ task.UpdatedAt >= threeDaysAgo
         THEN filterRecentTasksFromInclusive(listed, i + 1, threeDaysAgo,
                                             Append(filteredTasks, task))
         ELSE filterRecentTasksFromInclusive(listed, i + 1, threeDaysAgo, filteredTasks)

\* The loop of filterRecentTasks from the i-th task on: a task is appended when
\* its status is not Done and not Cancelled, or UpdatedAt.After(threeDaysAgo).
RECURSIVE filterRecentTasksFrom(_, _, _, _)
filterRecentTasksFrom(listed, i, threeDaysAgo, filteredTasks) ==
    IF i > Len(listed) THEN filteredTasks
    ELSE LET task == listed[i] IN
         IF (task.Status # TaskStatusDone /\ task.Status # TaskStatusCancelled)
               \/ task.UpdatedAt > threeDaysAgo
         THEN filterRecentTasksFrom(listed, i + 1, threeDaysAgo, Append(filteredTasks, task))
         ELSE filterRecentTasksFrom(listed, i + 1, threeDaysAgo, filteredTasks)

\* filterRecentTasks, called at time now.
filterRecentTasks(listed, now) == filterRecentTasksFrom(listed, 1, now - ThreeDays, <<>>)

\* No call of filterRecentTasks observed.
NoCall == [tasks |-> <<>>, now |-> 0, returned |-> FALSE, filteredTasks |-> <<>>]

---------------------------------------------------------------------------
(* The state machine.                                                      *)

\* Bot.Start before its first pass: the loop runs, ctx is not cancelled.
NotStarted == [running |-> TRUE, ctxDone |-> FALSE]

\* A faulty loop, to test that a property depends on it: the loop returns when
\* a handler returned an error.
LoopAfterReturnsOnError(l, T) ==
    IF T.err # "nil" THEN [l EXCEPT !.running = FALSE] ELSE l

\* Bot.Start after a handler returned: whatever the handler returned (an
\* error is logged), the loop reaches continue or the end of the loop body,
\* and runs on.
LoopAfter(l, T) == l

\* NewBot: empty session maps; the database after the migrations: no rows.
Init ==
    /\ projects = {}
    /\ users = {}
    /\ userProjects = {}
    /\ tasks = {}
    /\ taskCreationState = EmptyMap
    /\ taskEditState = EmptyMap
    /\ projectRenameState = EmptyMap
    /\ projectDescriptionEditState = EmptyMap
    /\ cfg = [Public |-> TRUE, AllowedTgIDs |-> {}]
    /\ filterRecentTasksCall = NoCall
    /\ loop = NotStarted

\* The program state after an update was handled.
Apply(T) ==
    /\ projects' = T.projects
    /\ users' = T.users
    /\ userProjects' = T.userProjects
    /\ tasks' = T.tasks
    /\ taskCreationState' = T.taskCreationState
    /\ taskEditState' = T.taskEditState
    /\ projectRenameState' = T.projectRenameState
    /\ projectDescriptionEditState' = T.projectDescriptionEditState
    /\ cfg' = T.cfg
    /\ loop.running
    /\ loop' = LoopAfter(loop, T)
    /\ UNCHANGED filterRecentTasksCall

\* The model stops where a table would outgrow its bound.
WithinBounds(T) ==
    /\ Cardinality(T.tasks) <= MaxTasks
    /\ \A r \in T.projects : r.id <= MaxProjectID

\* Bot.Start receives a text message of one of the users in one of the chats.
HandleMessage(Us, Cs, Ts) ==
    \E u \in Us, c \in Cs, t \in Ts :
        LET T == Start(State, MessageUpdate(c, u, t))
        IN  WithinBounds(T) /\ Apply(T)

\* Bot.Start receives a button press of one of the users in one of the chats.
HandleCallback(Us, Cs, Ds) ==
    \E u \in Us, c \in Cs, d \in Ds :
        LET T == Start(State, CallbackUpdate(c, u, d))
        IN  WithinBounds(T) /\ Apply(T)

\* Bot.Start receives a text message at some reading of the clock.
HandleMessageAt(Us, Cs, Ts, Ns) ==
    \E u \in Us, c \in Cs, t \in Ts, n \in Ns :
        LET T == Start([State EXCEPT !.now = n], MessageUpdate(c, u, t))
        IN  WithinBounds(T) /\ Apply(T)

\* Bot.Start receives a button press at some reading of the clock.
HandleCallbackAt(Us, Cs, Ds, Ns) ==
    \E u \in Us, c \in Cs, d \in Ds, n \in Ns :
        LET T == Start([State EXCEPT !.now = n], CallbackUpdate(c, u, d))
        IN  WithinBounds(T) /\ Apply(T)

\* Sessions and dispatch: both users in one chat, with every flow of the bot.
NextTexts == {"/cancel", "Fix bug"}
NextCallbacks ==
    {"confirm_create_project", "cmd_create_task", "cal_skip", "edit_field_1_title",
     "cmd_rename_project", "cmd_edit_project_description"}

Next ==
    \/ HandleMessage(TgUsers, {201}, NextTexts)
    \/ HandleCallback(TgUsers, {201}, NextCallbacks)

Spec == Init /\ [][Next]_vars

\* Projects and roles: both users in both chats; projects are created, renamed
\* and deleted, members join and are promoted.
ProjectTexts == {"/cancel", "Fix bug"}
ProjectCallbacks ==
    {"confirm_create_project", "cmd_rename_project", "cmd_edit_project_description",
     "confirm_delete_project", "promote_to_manager_2"}

NextProjects ==
    \/ HandleMessage(TgUsers, Chats, ProjectTexts)
    \/ HandleCallback(TgUsers, Chats, ProjectCallbacks)

SpecProjects == Init /\ [][NextProjects]_vars

\* Task creation: one user in one chat, with a text for every step.
CreationTexts == {"/cancel", "-", "Fix bug", "me"}
CreationCallbacks == {"confirm_create_project", "cmd_create_task", "cal_skip"}

NextCreation ==
    \/ HandleMessage({101}, {201}, CreationTexts)
    \/ HandleCallback({101}, {201}, CreationCallbacks)

SpecCreation == Init /\ [][NextCreation]_vars

\* Roles: both users in both chats; projects are created and deleted, members
\* join and either user is promoted; no flow with a session is started.
RoleTexts == {"/create_project"}
RoleCallbacks ==
    {"confirm_create_project", "confirm_delete_project", "promote_to_manager_1",
     "promote_to_manager_2"}

NextRoles ==
    \/ HandleMessage(TgUsers, Chats, RoleTexts)
    \/ HandleCallback(TgUsers, Chats, RoleCallbacks)

SpecRoles == Init /\ [][NextRoles]_vars

\* The context of Bot.Start is cancelled (main: a SIGINT or SIGTERM arrives).
CancelContext ==
    /\ ~loop.ctxDone
    /\ loop' = [loop EXCEPT !.ctxDone = TRUE]
    /\ UNCHANGED <<projects, users, userProjects, tasks, taskCreationState, taskEditState,
                   projectRenameState, projectDescriptionEditState, cfg,
                   filterRecentTasksCall>>

\* Bot.Start, case <-ctx.Done(): the loop returns.  While an update is ready as
\* well, select takes either case.
Stop ==
    /\ loop.running /\ loop.ctxDone
    /\ loop' = [loop EXCEPT !.running = FALSE]
    /\ UNCHANGED <<projects, users, userProjects, tasks, taskCreationState, taskEditState,
                   projectRenameState, projectDescriptionEditState, cfg,
                   filterRecentTasksCall>>

\* The loop: both users in both chats; buttons whose handlers return an error
\* (no project in the chat, a malformed id), project creation, a rename
\* session and texts; the context is cancelled at any time.
LoopTexts == {"/cancel", "Fix bug"}
LoopCallbacks == {"confirm_create_project", "cmd_rename_project", "task_x"}

NextLoop ==
    \/ HandleMessage(TgUsers, Chats, LoopTexts)
    \/ HandleCallback(TgUsers, Chats, LoopCallbacks)
    \/ CancelContext
    \/ Stop

SpecLoop == Init /\ [][NextLoop]_vars

\* Field edits: one user in one chat creates tasks with a description, an
\* assignee and a deadline, edits the description and clears fields, at
\* different readings of the clock.
EditTexts == {"me"}
EditCallbacks ==
    {"confirm_create_project", "cmd_create_task", "cal_date_2030_1_11",
     "edit_field_1_description", "clear_field_1_description", "clear_field_1_deadline",
     "clear_field_1_assignee"}

NextEdit ==
    \/ HandleMessageAt({101}, {201}, EditTexts, Clocks)
    \/ HandleCallbackAt({101}, {201}, EditCallbacks, Clocks)

SpecEdit == Init /\ [][NextEdit]_vars

\* Tasks and projects: both users in both chats create and delete projects
\* and create tasks, assigning them to themselves.
TaskTexts == {"me"}
TaskCallbacks ==
    {"confirm_create_project", "confirm_delete_project", "cmd_create_task", "cal_skip"}

NextTasks ==
    \/ HandleMessage(TgUsers, Chats, TaskTexts)
    \/ HandleCallback(TgUsers, Chats, TaskCallbacks)

SpecTasks == Init /\ [][NextTasks]_vars

\* Access: both users in one chat, while the configuration goes from public
\* mode to private mode, with one allowed user, and back.
Configs == {[Public |-> TRUE, AllowedTgIDs |-> {}], [Public |-> FALSE, AllowedTgIDs |-> {101}]}
PrivateTexts == {"/cancel", "Fix bug"}
PrivateCallbacks == {"confirm_create_project", "cmd_create_task", "cmd_rename_project"}

\* Bot.SetConfig
SetConfig ==
    /\ \E c \in Configs : cfg' = c
    /\ UNCHANGED <<projects, users, userProjects, tasks, taskCreationState, taskEditState,
                   projectRenameState, projectDescriptionEditState,
                   filterRecentTasksCall, loop>>

NextPrivate ==
    \/ HandleMessage(TgUsers, {201}, PrivateTexts)
    \/ HandleCallback(TgUsers, {201}, PrivateCallbacks)
    \/ SetConfig

SpecPrivate == Init /\ [][NextPrivate]_vars

\* Deadlines: one user in one chat creates tasks with typed and picked dates, at
\* every reading of the clock.
DeadlineTexts == {"-", "09.01.2030", "10.01.2030"}
DeadlineCallbacks == {"confirm_create_project", "cmd_create_task", "cal_date_2030_1_11"}

NextDeadline ==
    \/ HandleMessageAt({101}, {201}, DeadlineTexts, Clocks)
    \/ HandleCallbackAt({101}, {201}, DeadlineCallbacks, Clocks)

SpecDeadline == Init /\ [][NextDeadline]_vars

\* filterRecentTasks on every list of at most MaxListed tasks, of every status,
\* updated from a month ago to a day ago, around the three days to the hour.
MaxListed == 2
FilterNow == 1000
ListedTasks ==
    [Status : {TaskStatusBacklog, TaskStatusTODO, TaskStatusInProgress, TaskStatusDone,
               TaskStatusCancelled, TaskStatusOnHold},
     UpdatedAt : {FilterNow - 720, FilterNow - 96, FilterNow - ThreeDays - 1,
                  FilterNow - ThreeDays, FilterNow - ThreeDays + 1, FilterNow - 24}]
ListedLists == UNION {[1..n -> ListedTasks] : n \in 0..MaxListed}

InitFilter ==
    /\ projects = {}
    /\ users = {}
    /\ userProjects = {}
    /\ tasks = {}
    /\ taskCreationState = EmptyMap
    /\ taskEditState = EmptyMap
    /\ projectRenameState = EmptyMap
    /\ projectDescriptionEditState = EmptyMap
    /\ cfg = [Public |-> TRUE, AllowedTgIDs |-> {}]
    /\ loop = NotStarted
    /\ \E listed \in ListedLists :
           filterRecentTasksCall = [NoCall EXCEPT !.tasks = listed, !.now = FilterNow]

\* filterRecentTasks is called on the list and returns.
FilterRecentTasks ==
    /\ ~filterRecentTasksCall.returned
    /\ filterRecentTasksCall' =
           [filterRecentTasksCall EXCEPT
               !.returned = TRUE,
               !.filteredTasks = filterRecentTasks(filterRecentTasksCall.tasks,
                                                   filterRecentTasksCall.now)]
    /\ UNCHANGED <<projects, users, userProjects, tasks, taskCreationState, taskEditState,
                   projectRenameState, projectDescriptionEditState, cfg, loop>>

NextFilter == FilterRecentTasks

SpecFilter == InitFilter /\ [][NextFilter]_vars

---------------------------------------------------------------------------
(* Properties.  A property about what the handling of an update does is    *)
(* stated at every reachable state, for every update the state may         *)
(* receive: Start(State, update) is the state after that update.           *)

\* The texts and the button payloads an update may carry.
AllTexts ==
    {"/start", "/create_project", "/create_task", "/rename_project", "/status", "/home",
     "/cancel", "/help", "otmena", " /cancel ", "   ", "", " Fix bug ", "Fix bug", "-",
     "me", "ya", "@alice", "@bob", "@ghost", "@taskbot", "ask @bob please",
     "09.01.2030", "10.01.2030", "11.01.2030", "31.02.2030", "@taskbot /create_task",
     "@taskbot /create_project", "@taskbot /status", "@taskbot /help", "hello"}
AllCallbacks ==
    {"cmd_create_project", "cmd_create_task", "cmd_my_tasks", "cmd_project_tasks",
     "cmd_back_to_menu", "cmd_status", "confirm_create_project", "cancel_create_project",
     "cmd_project_management", "cmd_rename_project", "cmd_edit_project_description",
     "cmd_assign_manager", "cmd_delete_project", "confirm_delete_project", "noop",
     "unknown"} \cup {r.data : r \in CallbackTable}
\* Every update user u may send in chat c.
AllUpdates(c, u) ==
    {MessageUpdate(c, u, t) : t \in AllTexts} \cup {CallbackUpdate(c, u, d) : d \in AllCallbacks}

\* The state record before the next update is read.
Fresh(S) ==
    [S EXCEPT !.now = ClockUTC, !.fault = "none", !.calls = <<>>,
              !.out = <<>>, !.err = "nil", !.route = "none"]

\* The session maps that hold an entry of a user.
BucketsOf(S, u) ==
    {b \in {"taskCreation", "taskEdit", "projectRename", "projectDescriptionEdit"} :
        CASE b = "taskCreation" -> u \in DOMAIN S.taskCreationState
          [] b = "taskEdit" -> u \in DOMAIN S.taskEditState
          [] b = "projectRename" -> u \in DOMAIN S.projectRenameState
          [] b = "projectDescriptionEdit" -> u \in DOMAIN S.projectDescriptionEditState}

\* The texts that cancel a flow: the two keywords, bare or in white space.
CancelTexts == {"/cancel", "otmena", " /cancel "}

\* C1: in every reachable state, for every platform user id, at most one of
\* the four session maps holds an entry of that user.
C1_AtMostOneBucket ==
    \A u \in TgUsers : Cardinality(BucketsOf(State, u)) <= 1

\* C2: when a user with an entry in some session map sends a cancel text, the
\* user has no entry in any session map afterwards, and the next text of that
\* user goes to the command router.
C2_CancelLeavesNoSession ==
    \A u \in TgUsers, c \in Chats, t \in CancelTexts :
        BucketsOf(State, u) # {} =>
            LET R == Start(State, MessageUpdate(c, u, t))
            IN  /\ BucketsOf(R, u) = {}
                /\ \A d \in Chats, x \in AllTexts :
                       Start(Fresh(R), MessageUpdate(d, u, x)).route = "command"

\* The role a platform user has in a project ("" when the user is not
\* registered or has no role row there).
RoleOf(S, projectID, tgUserID) ==
    LET u == FetchUserByTgID(S, tgUserID)
        r == FetchUserRoleInProject(S, projectID, u.user.ID)
    IN  IF u.err = "nil" /\ r.err = "nil" THEN r.role ELSE ""

\* The role rows of a project.
RolesIn(S, projectID) == {r \in S.userProjects : r.project_id = projectID}

\* C3: no update sent by a user who is Member of a project, in whatever chat,
\* changes the title (or description) of that project, deletes it, or changes
\* a role row of it.
C3_MemberChangesNothing ==
    \A u \in TgUsers, c \in Chats :
        \A e \in AllUpdates(c, u) :
            LET R == Start(State, e)
            IN  \A p \in State.projects :
                    RoleOf(State, p.id, u) = UserProjectRoleMember =>
                        /\ p \in R.projects
                        /\ RolesIn(R, p.id) = RolesIn(State, p.id)

\* What the command router and the commands reply.
CommandReplies ==
    {"status", "unknown command", "confirm project creation", "project already created",
     "project created, you are added", "you are already in the project",
     "step 1/4: enter the title", "project not found, create it with /start"}

\* C4: a text of a user who has an entry in a session map is handled by the
\* message handler of a flow the user is in and never by the command router,
\* also when the text is a slash command: no command replies, no command starts
\* a task creation; the command router handles texts of users without session
\* entry only.
C4_SessionTextGoesToFlow ==
    \A u \in TgUsers, c \in Chats, t \in AllTexts :
        LET R == Start(State, MessageUpdate(c, u, t))
        IN  /\ BucketsOf(State, u) # {} =>
                   /\ R.route \in BucketsOf(State, u)
                   /\ \A m \in CommandReplies : ~Sent(R, m)
                   /\ "taskCreation" \in BucketsOf(R, u) =>
                          "taskCreation" \in BucketsOf(State, u)
            /\ R.route = "command" => BucketsOf(State, u) = {}

\* C4, its case: a user whose only session is a title edit sends /create_task;
\* the edit handler takes the text, which becomes the title of the task, and no
\* task creation starts.
C4_Witness ==
    \E u \in TgUsers, c \in Chats :
        /\ BucketsOf(State, u) = {"taskEdit"}
        /\ State.taskEditState[u].Field = TaskEditFieldTitle
        /\ LET R == Start(State, MessageUpdate(c, u, "/create_task"))
           IN  /\ R.route = "taskEdit"
               /\ \E k \in R.tasks : k.Title = "/create_task"
               /\ BucketsOf(R, u) = {}

\* The role rows an update inserted: rows of a (project, user) pair that had
\* no row before.
InsertedRoles(S, R) ==
    {r \in R.userProjects :
        ~ \E q \in S.userProjects : q.project_id = r.project_id /\ q.user_id = r.user_id}

\* C5: the first user added to a project (the one added by the update that
\* creates the project) gets the role Manager, and a user added to a project
\* that has a member gets the role Member.
C5_FirstMemberIsManager ==
    \A u \in TgUsers, c \in Chats :
        \A e \in AllUpdates(c, u) :
            LET R == Start(State, e)
            IN  \A r \in InsertedRoles(State, R) :
                    IF \E p \in State.projects : p.id = r.project_id
                    THEN RolesIn(State, r.project_id) # {} =>
                             r.user_role = UserProjectRoleMember
                    ELSE r.user_role = UserProjectRoleManager

\* The updates that invoke createProjectCommand whatever the sessions are.
CreateProjectCallbacks == {"cmd_create_project", "confirm_create_project"}
\* The texts that invoke it for a user without session.
CreateProjectTexts == {"/create_project", "@taskbot /create_project"}

\* The project rows of a chat.
ProjectsOf(S, c) == {p \in S.projects : p.tg_chat_id = c}

\* The state after user u invoked project initialisation in chat c,
\* for each way of invoking it the user has.
AfterCreateProject(c, u) ==
    {Start(State, CallbackUpdate(c, u, d)) : d \in CreateProjectCallbacks}
        \cup {createProjectCommand(State, c, u, UserNameOf(u))}
        \cup IF BucketsOf(State, u) = {}
             THEN {Start(State, MessageUpdate(c, u, t)) : t \in CreateProjectTexts}
             ELSE {}

\* C6: a chat has at most one project; project initialisation in a chat leaves
\* exactly one project of that chat, and when the chat had a project, by
\* whomever created, the call succeeds and no project row changed (same id,
\* same title).
C6_OneProjectPerChat ==
    /\ \A c \in Chats : Cardinality(ProjectsOf(State, c)) <= 1
    /\ \A u \in TgUsers, c \in Chats :
           \A R \in AfterCreateProject(c, u) :
               /\ Cardinality(ProjectsOf(R, c)) = 1
               /\ ProjectsOf(State, c) # {} => R.projects = State.projects /\ R.err = "nil"

\* C6, its case: a project that was renamed exists in a chat, and a user who is
\* not in it initialises the project there: the user is added, the project row
\* stays as it is.
C6_Witness ==
    \E u \in TgUsers, c \in Chats :
        /\ \E p \in ProjectsOf(State, c) :
               p.title # ChatTitle(c) /\ RoleOf(State, p.id, u) = ""
        /\ \A R \in AfterCreateProject(c, u) :
               R.projects = State.projects /\ Sent(R, "project created, you are added")

\* C7: a (project id, user id) pair has at most one role row, and project
\* initialisation by a user who has a role in the project of the chat succeeds,
\* inserts no row and changes no role.
C7_OneRoleRow ==
    /\ \A r \in State.userProjects, q \in State.userProjects :
           r.project_id = q.project_id /\ r.user_id = q.user_id => r = q
    /\ \A u \in TgUsers, c \in Chats :
           \A p \in ProjectsOf(State, c) :
               RoleOf(State, p.id, u) # "" =>
                   \A R \in AfterCreateProject(c, u) :
                       /\ R.userProjects = State.userProjects
                       /\ R.err = "nil"
                       /\ Sent(R, "you are already in the project")

\* C7, its case: the manager of a project with two members initialises the
\* project again, and the role rows stay as they are.
C7_Witness ==
    \E u \in TgUsers, c \in Chats :
        \E p \in ProjectsOf(State, c) :
            /\ RoleOf(State, p.id, u) = UserProjectRoleManager
            /\ Cardinality(RolesIn(State, p.id)) = 2
            /\ \A R \in AfterCreateProject(c, u) :
                   R.userProjects = State.userProjects
                       /\ Sent(R, "you are already in the project")

\* C8: for a registered user who has no role row in the project of the chat,
\* or is Member of it, isUserManager returns false and no error.
C8_NoRoleIsFalseWithoutError ==
    \A u \in TgUsers, c \in Chats :
        \A p \in ProjectsOf(State, c) :
            (FetchUserByTgID(State, u).err = "nil"
                 /\ RoleOf(State, p.id, u) # UserProjectRoleManager) =>
                isUserManager(State, c, u) = [ok |-> FALSE, err |-> "nil"]

\* The buttons of the privileged operations, and the denials they reply.
PrivilegedCallbacks ==
    {"cmd_rename_project", "cmd_edit_project_description", "cmd_assign_manager",
     "promote_to_manager_1", "promote_to_manager_2", "cmd_delete_project",
     "confirm_delete_project", "cmd_project_management", "cmd_project_tasks"}
Denials ==
    {"denied: no right to view the project tasks", "denied: no right to manage the project",
     "denied: no right to rename the project", "denied: no right to assign a manager",
     "denied: no right to delete the project",
     "denied: no right to change the project description"}

\* C9: a privileged operation invoked in a chat with a project by a user who is
\* not Manager of that project (Member, or without role) replies a denial,
\* starts no session and changes no entity.
C9_NonManagerIsDenied ==
    \A u \in TgUsers, c \in Chats, d \in PrivilegedCallbacks :
        \A p \in ProjectsOf(State, c) :
            RoleOf(State, p.id, u) # UserProjectRoleManager =>
                LET R == Start(State, CallbackUpdate(c, u, d))
                IN  /\ \E m \in Denials : Sent(R, m)
                    /\ Fresh(R) = State

\* The state after user u started a task creation in chat c with the button
\* and then sent four texts in chat d: the title, and the texts of the
\* description, assignee and deadline steps.
AfterCreation(c, u, d, title, description, assignee, deadline) ==
    LET S1 == Start(State, CallbackUpdate(c, u, "cmd_create_task"))
        S2 == Start(Fresh(S1), MessageUpdate(d, u, title))
        S3 == Start(Fresh(S2), MessageUpdate(d, u, description))
        S4 == Start(Fresh(S3), MessageUpdate(d, u, assignee))
    IN  Start(Fresh(S4), MessageUpdate(d, u, deadline))

\* Whether exactly one task was added to the tasks of the state, with this
\* title in this project, status Todo, nothing else set, and the creation
\* session of the user is gone.
OneBareTask(R, u, projectID, title) ==
    /\ State.tasks \subseteq R.tasks
    /\ \E k \in R.tasks :
           /\ R.tasks \ State.tasks = {k}
           /\ k.ProjectID = projectID /\ k.Title = title
           /\ k.Status = TaskStatusTODO /\ k.Description = ""
           /\ k.Assignee = 0 /\ k.Deadline = ZeroTime
    /\ u \notin DOMAIN R.taskCreationState

\* C10 as the specification states it: for any non-empty title followed by
\* "-" at the description, assignee and deadline steps exactly one task is
\* stored, with that title, status Todo, empty description, assignee 0 and zero
\* deadline, in the project of the chat the flow was started in, and the
\* creation session of the user is removed.
C10_AsStated ==
    \A u \in TgUsers, c \in Chats :
        \A p \in ProjectsOf(State, c) :
            \A d \in Chats, title \in AllTexts \ {""} :
                OneBareTask(AfterCreation(c, u, d, title, "-", "-", "-"), u, p.id, title)

\* C10, amended: the same for any title that, with the white space around it
\* removed, is not empty and no cancel keyword; the task has the title without
\* the white space around it.
C10_SkipAllCreatesBareTask ==
    \A u \in TgUsers, c \in Chats :
        \A p \in ProjectsOf(State, c) :
            \A d \in Chats, title \in AllTexts :
                TrimSpace(title) \notin {"", "/cancel", "otmena"} =>
                    OneBareTask(AfterCreation(c, u, d, title, "-", "-", "-"),
                                u, p.id, TrimSpace(title))

\* C10, its case: the flow was run with the title "Fix bug" and three skips:
\* the task is stored in the project of chat 201 and its creator has no
\* creation session.
C10_Witness ==
    \E k \in tasks, p \in ProjectsOf(State, 201) :
        /\ k.ProjectID = p.id /\ k.Title = "Fix bug"
        /\ k.Status = TaskStatusTODO /\ k.Description = ""
        /\ k.Assignee = 0 /\ k.Deadline = ZeroTime
        /\ k.CreatedBy \notin DOMAIN taskCreationState

\* Whether user u has a creation session at this step.
AtStep(S, u, step) ==
    u \in DOMAIN S.taskCreationState /\ S.taskCreationState[u].Step = step

\* Whether a handle is the handle of a registered user who has a role row in
\* the project.
IsMemberHandle(S, projectID, username) ==
    \E r \in S.users :
        /\ r.username = username
        /\ \E q \in S.userProjects : q.project_id = projectID /\ q.user_id = r.id

\* C11: a text at the assignee step moves the session to the deadline step
\* only when it is the skip sentinel "-", a self-assignment keyword, or mentions
\* a registered user with a role in the project of the session; a text that
\* mentions the bot, an unknown handle or a user without role in that project
\* leaves the session as it was (step Assignee, assignee unset) and stores no
\* task.
C11_AssigneeStepAdvances ==
    \A u \in TgUsers, d \in Chats, t \in AllTexts :
        AtStep(State, u, TaskStepAssignee) =>
            LET state == State.taskCreationState[u]
                text == TrimSpace(t)
                R == Start(State, MessageUpdate(d, u, t))
                member == IsMemberHandle(State, state.ProjectID, Mention(text))
            IN  /\ AtStep(R, u, TaskStepDeadline) =>
                       \/ text = "-"
                       \/ isSelfAssignment(text)
                       \/ Mention(text) # "" /\ Mention(text) # BotUserName /\ member
                /\ (Mention(text) # "" /\ (Mention(text) = BotUserName \/ ~member)) =>
                       /\ R.taskCreationState = State.taskCreationState
                       /\ state.Assignee = 0
                       /\ R.tasks = State.tasks

\* The updates that carry a date to the deadline step, with the day they carry:
\* a typed date, or a date picked in the calendar.
DatedUpdates(d, u) ==
    {[update |-> MessageUpdate(d, u, t), day |-> ParseDate(TrimSpace(t)).day] :
        t \in {x \in AllTexts : ParseDate(TrimSpace(x)).ok}}
      \cup {[update |-> CallbackUpdate(d, u, "cal_date_2030_1_9"), day |-> 9],
            [update |-> CallbackUpdate(d, u, "cal_date_2030_1_11"), day |-> 11]}

\* C12: at the deadline step, whatever the hour of the day, a date before the
\* current calendar day stores no task and leaves the session at the deadline
\* step; a date of today or later stores exactly one task, whose deadline is
\* 23:59:59 of that day.
C12_PastDateRejected ==
    \A u \in TgUsers, d \in Chats, n \in Clocks :
        AtStep(State, u, TaskStepDeadline) =>
            \A e \in DatedUpdates(d, u) :
                LET R == Start([State EXCEPT !.now = n], e.update)
                IN  IF e.day < n.local
                    THEN /\ R.tasks = State.tasks
                         /\ R.taskCreationState = State.taskCreationState
                    ELSE /\ State.tasks \subseteq R.tasks
                         /\ \E k \in R.tasks :
                                /\ R.tasks \ State.tasks = {k}
                                /\ k.Deadline = EndOfDay(e.day)

\* The button that starts the edit of a field of task 1.
EditFieldCallback(field) ==
    CASE field = TaskEditFieldTitle -> "edit_field_1_title"
      [] field = TaskEditFieldDescription -> "edit_field_1_description"
      [] field = TaskEditFieldStatus -> "edit_field_1_status"
      [] field = TaskEditFieldDeadline -> "edit_field_1_deadline"
      [] field = TaskEditFieldAssignee -> "edit_field_1_assignee"

\* The button that clears a field of task 1.
ClearFieldCallback(field) ==
    CASE field = TaskEditFieldDescription -> "clear_field_1_description"
      [] field = TaskEditFieldDeadline -> "clear_field_1_deadline"
      [] field = TaskEditFieldAssignee -> "clear_field_1_assignee"
      [] field = TaskEditFieldTitle -> "clear_field_1_title"
      [] field = TaskEditFieldStatus -> "clear_field_1_status"

\* Whether task 1 is stored, and its row.
HasTask1(S) == \E k \in S.tasks : k.id = 1
\* Whether a text of user u reaches the edit flow once u has an edit session:
\* task 1 is stored and u has no creation session, which Bot.Start asks first.
CanEditTask1(S, u) == HasTask1(S) /\ u \notin DOMAIN S.taskCreationState
Task1(S) == CHOOSE k \in S.tasks : k.id = 1

\* The state after user u pressed the edit button of a field of task 1 in chat
\* c and then sent a text there.
AfterEdit(c, u, field, t) ==
    LET S1 == Start(State, CallbackUpdate(c, u, EditFieldCallback(field)))
    IN  Start(Fresh(S1), MessageUpdate(c, u, t))

\* The state after user u opened the status selection of task 1 in chat c and
\* pressed the button of the status Done.
AfterStatusSelection(c, u) ==
    LET S1 == Start(State, CallbackUpdate(c, u, EditFieldCallback(TaskEditFieldStatus)))
    IN  Start(Fresh(S1), CallbackUpdate(c, u, "set_status_1_done"))

\* The user id an assignee text of user u names: the user's own for a
\* self-assignment keyword, else the one of the mentioned handle.
AssigneeNamed(S, u, text) ==
    IF isSelfAssignment(text) THEN FetchUserByTgID(S, u).user.ID
    ELSE FetchUserByUsername(S, Mention(text)).user.ID

\* Whether task 1 holds the value a text gives a field.
ValueStored(R, u, field, text) ==
    CASE field = TaskEditFieldTitle -> Task1(R).Title = text
      [] field = TaskEditFieldDescription -> Task1(R).Description = text
      [] field = TaskEditFieldDeadline ->
             ParseDate(text).ok /\ Task1(R).Deadline = EndOfDay(ParseDate(text).day)
      [] field = TaskEditFieldAssignee -> Task1(R).Assignee = AssigneeNamed(State, u, text)

\* Whether task 1 holds the cleared value of a field.
ValueCleared(R, field) ==
    CASE field = TaskEditFieldDescription -> Task1(R).Description = ""
      [] field = TaskEditFieldDeadline -> Task1(R).Deadline = ZeroTime
      [] field = TaskEditFieldAssignee -> Task1(R).Assignee = 0

\* C13: for a user without creation session, after every field mutation that is reported as done (title,
\* description, deadline or assignee by text; description, deadline or assignee
\* by the clear button; status by the status button) task 1 holds the new
\* value and the acting user has no entry in taskEditState.
C13_MutationClearsSession ==
    \A u \in TgUsers, c \in Chats :
        CanEditTask1(State, u) =>
            /\ \A f \in {TaskEditFieldTitle, TaskEditFieldDescription,
                          TaskEditFieldDeadline, TaskEditFieldAssignee}, t \in AllTexts :
                   LET R == AfterEdit(c, u, f, t)
                   IN  Sent(R, "field updated") =>
                           /\ u \notin DOMAIN R.taskEditState
                           /\ ValueStored(R, u, f, TrimSpace(t))
            /\ \A f \in {TaskEditFieldDescription, TaskEditFieldDeadline,
                          TaskEditFieldAssignee} :
                   LET R == Start(State, CallbackUpdate(c, u, ClearFieldCallback(f)))
                   IN  Sent(R, "field cleared") =>
                           /\ u \notin DOMAIN R.taskEditState
                           /\ ValueCleared(R, f)
            /\ LET R == AfterStatusSelection(c, u)
               IN  Sent(R, "status updated") =>
                       /\ u \notin DOMAIN R.taskEditState
                       /\ Task1(R).Status = TaskStatusDone

\* C14: in an edit of the deadline of task 1 by a user without creation
\* session, a text that is a date (of today
\* or later) makes 23:59:59 of that day the stored deadline; a text that is
\* no date leaves the stored deadline as it was and is not reported as an
\* update.
C14_DeadlineEditParsesDate ==
    \A u \in TgUsers, c \in Chats, t \in AllTexts :
        (CanEditTask1(State, u) /\ TrimSpace(t) \notin {"", "/cancel", "otmena"}) =>
            LET R == AfterEdit(c, u, TaskEditFieldDeadline, t)
                date == ParseDate(TrimSpace(t))
            IN  IF date.ok
                THEN date.day >= Today => Task1(R).Deadline = EndOfDay(date.day)
                ELSE /\ Task1(R).Deadline = Task1(State).Deadline
                     /\ ~Sent(R, "field updated")

\* Whether an assignee text of user u passes the validation for task 1: a
\* self-assignment keyword of a user with a role in the project of the task,
\* or a mention of a registered user, not the bot, with a role in it.
AssigneeValid(S, u, text) ==
    IF isSelfAssignment(text)
    THEN RoleOf(S, Task1(S).ProjectID, u) # ""
    ELSE /\ Mention(text) \notin {"", BotUserName}
         /\ IsMemberHandle(S, Task1(S).ProjectID, Mention(text))

\* C15: in the edit of a field of task 1 by a user without creation session, a
\* text that fails the validation (an
\* empty text; for the assignee a mention of the bot, of an unknown handle, of a
\* user without role in the project of the task, a self-assignment of a user
\* without role in it, a text without mention) leaves the tasks as they were
\* and leaves the edit session of the user (task 1, the same field) in place.
C15_ValidationFailureKeepsSession ==
    \A u \in TgUsers, c \in Chats, t \in AllTexts :
        \A f \in {TaskEditFieldTitle, TaskEditFieldDescription, TaskEditFieldDeadline,
                  TaskEditFieldAssignee} :
            LET text == TrimSpace(t)
                R == AfterEdit(c, u, f, t)
                failure ==
                    \/ text = ""
                    \/ /\ f = TaskEditFieldAssignee
                       /\ text \notin {"/cancel", "otmena"}
                       /\ ~AssigneeValid(State, u, text)
            IN  (CanEditTask1(State, u) /\ failure) =>
                    /\ R.tasks = State.tasks
                    /\ u \in DOMAIN R.taskEditState
                    /\ R.taskEditState[u] = [Field |-> f, TaskID |-> 1]

\* Whether the claim keeps a task: its status is not Done and not Cancelled, or
\* it was updated less than three days before now.
KeptByClaim(task, now) ==
    \/ task.Status \notin {TaskStatusDone, TaskStatusCancelled}
    \/ task.UpdatedAt > now - ThreeDays

\* Whether sequence r holds, in the order of l, exactly the tasks among the
\* first i of l that the claim keeps.
RECURSIVE IsSelection(_, _, _, _)
IsSelection(r, l, now, i) ==
    IF i = 0 THEN r = <<>>
    ELSE IF KeptByClaim(l[i], now)
         THEN /\ r # <<>>
              /\ r[Len(r)] = l[i]
              /\ IsSelection(SubSeq(r, 1, Len(r) - 1), l, now, i - 1)
         ELSE IsSelection(r, l, now, i - 1)

\* C16: filterRecentTasks returns, in the order of its argument, exactly the
\* tasks that are not Done and not Cancelled together with the Done and
\* Cancelled tasks updated after now minus three days; a Done or Cancelled task
\* updated at now minus three days exactly, or before, is left out, and a task
\* of another status is kept whatever its age.
C16_FilterRecentTasks ==
    LET call == filterRecentTasksCall
    IN  call.returned =>
            /\ IsSelection(call.filteredTasks, call.tasks, call.now, Len(call.tasks))
            /\ \A i \in 1..Len(call.tasks) :
                   LET task == call.tasks[i]
                       kept == \E j \in 1..Len(call.filteredTasks) :
                                   call.filteredTasks[j] = task
                   IN  /\ (task.Status \in {TaskStatusDone, TaskStatusCancelled}
                              /\ task.UpdatedAt <= call.now - ThreeDays) => ~kept
                       /\ task.Status \notin {TaskStatusDone, TaskStatusCancelled} => kept

\* C16, its case: a list of a Done task updated three days ago to the hour and
\* an InProgress task updated a month ago was filtered: the first is left out,
\* the second is returned.
C16_Witness ==
    /\ filterRecentTasksCall.returned
    /\ filterRecentTasksCall.tasks =
           <<[Status |-> TaskStatusDone, UpdatedAt |-> FilterNow - ThreeDays],
             [Status |-> TaskStatusInProgress, UpdatedAt |-> FilterNow - 720]>>
    /\ filterRecentTasksCall.filteredTasks =
           <<[Status |-> TaskStatusInProgress, UpdatedAt |-> FilterNow - 720]>>

\* update.Message.From.UserName: the handles a user may come with.
Handles == {"alice", "bob", "carol"}
\* The user rows of a platform user id.
UsersOf(S, u) == {r \in S.users : r.tg_user_id = u}
\* How many times UpdateUser was called while the update was handled.
UpdateUserCalls(R) == Cardinality({i \in 1..Len(R.calls) : R.calls[i] = "UpdateUser"})

\* C17: a platform user id has at most one user row; createProjectCommand for
\* a user who has a row calls UpdateUser not at all when the handle of the
\* update is the stored one and exactly once when it differs, adds no user row,
\* and, also when that UpdateUser fails, returns no error and leaves the user
\* with a role in the project of the chat.
C17_EnsureUser ==
    /\ \A u \in TgUsers : Cardinality(UsersOf(State, u)) <= 1
    /\ \A u \in TgUsers, c \in Chats, name \in Handles, f \in {"none", "UpdateUser"} :
           \A r \in UsersOf(State, u) :
               LET R == createProjectCommand([State EXCEPT !.fault = f], c, u, name)
               IN  /\ UpdateUserCalls(R) = IF r.username = name THEN 0 ELSE 1
                   /\ {q.id : q \in R.users} = {q.id : q \in State.users}
                   /\ {q.id : q \in UsersOf(R, u)} = {r.id}
                   /\ f = "none" => \A q \in UsersOf(R, u) : q.username = name
                   /\ R.err = "nil"
                   /\ \E p \in ProjectsOf(R, c) : RoleOf(R, p.id, u) # ""

\* C17, its case: a registered user without role in the project of a chat comes
\* with a new handle and UpdateUser fails: one call was made, the stored handle
\* is the old one, and the user was added to the project all the same.
C17_Witness ==
    \E u \in TgUsers, c \in Chats :
        \E r \in UsersOf(State, u), p \in ProjectsOf(State, c) :
            /\ RoleOf(State, p.id, u) = ""
            /\ LET R == createProjectCommand([State EXCEPT !.fault = "UpdateUser"],
                                             c, u, "carol")
               IN  /\ R.calls = <<"UpdateUser">>
                   /\ r \in R.users
                   /\ RoleOf(R, p.id, u) # ""
                   /\ Sent(R, "project created, you are added")

\* C18: an update of a user with a creation session leaves the step where it
\* was or moves it one step forward, when the session is still there, and
\* stores a new task only when the session was at the deadline step.
C18_StepNeverMovesBack ==
    \A u \in TgUsers, c \in Chats :
        u \in DOMAIN State.taskCreationState =>
            \A e \in AllUpdates(c, u) :
                LET R == Start(State, e)
                    step == State.taskCreationState[u].Step
                IN  /\ u \in DOMAIN R.taskCreationState =>
                           R.taskCreationState[u].Step \in {step, step + 1}
                    /\ {k.id : k \in R.tasks} # {k.id : k \in State.tasks} =>
                           step = TaskStepDeadline

\* The write calls made while an update was handled, and the flow a write call
\* belongs to.
WriteCalls(R) ==
    {i \in 1..Len(R.calls) : R.calls[i] \in {"CreateTask", "UpdateTask", "UpdateProject"}}
FlowOfCall(R, i) ==
    CASE R.calls[i] = "CreateTask" -> "taskCreation"
      [] R.calls[i] = "UpdateTask" -> "taskEdit"
      [] R.calls[i] = "UpdateProject" -> R.route

\* The updates that drive a flow with a session: every text, and the buttons of
\* the calendar.
FlowUpdates(c, u) ==
    {MessageUpdate(c, u, t) : t \in AllTexts}
        \cup {CallbackUpdate(c, u, d) : d \in {"cal_skip", "cal_date_2030_1_9",
                                               "cal_date_2030_1_11"}}

\* Whether, after an update during which every write fails, a write was tried
\* at most once, the session of the flow that tried it is gone, and the tasks
\* and projects are as they were.
FailedWriteClearsSession(S, R, u) ==
    \A i \in WriteCalls(R) :
        /\ WriteCalls(R) = {i}
        /\ FlowOfCall(R, i) \notin BucketsOf(R, u)
        /\ R.tasks = S.tasks
        /\ R.projects = S.projects

\* C19: when the write of a flow fails (CreateTask at the end of the creation,
\* UpdateTask in the edit of a field by text or by the status button,
\* UpdateProject in the rename or the description edit), the write is not tried
\* again, the session of that flow of the acting user is removed, and the
\* stored tasks and projects are as they were.
C19_WriteFailureClearsSession ==
    \A u \in TgUsers, c \in Chats :
        /\ \A e \in FlowUpdates(c, u) :
               FailedWriteClearsSession(State, Start([State EXCEPT !.fault = "write"], e), u)
        /\ CanEditTask1(State, u) =>
               LET S1 == Start(State, CallbackUpdate(c, u,
                                          EditFieldCallback(TaskEditFieldStatus)))
                   R == Start([Fresh(S1) EXCEPT !.fault = "write"],
                              CallbackUpdate(c, u, "set_status_1_done"))
               IN  FailedWriteClearsSession(State, R, u)

\* C20: no update changes the role of a role row except from member to manager
\* (and no update removes a role row).
C20_NoDemotion ==
    \A u \in TgUsers, c \in Chats :
        \A e \in AllUpdates(c, u) :
            LET R == Start(State, e)
            IN  \A r \in State.userProjects :
                    \E q \in R.userProjects :
                        /\ q.project_id = r.project_id /\ q.user_id = r.user_id
                        /\ \/ q.user_role = r.user_role
                           \/ /\ r.user_role = UserProjectRoleMember
                              /\ q.user_role = UserProjectRoleManager

\* C20, its case: a member was promoted, the project has two managers, and
\* whatever either of them sends next, both stay manager.
C20_Witness ==
    \E p \in State.projects :
        /\ Cardinality({r \in RolesIn(State, p.id) :
                           r.user_role = UserProjectRoleManager}) = 2
        /\ \A u \in TgUsers, c \in Chats :
               \A e \in AllUpdates(c, u) :
                   \A r \in RolesIn(State, p.id) : r \in Start(State, e).userProjects

\* The promote buttons, the internal user id a button names, and the storage
\* faults an update may meet.
PromoteCallbacks == {"promote_to_manager_1", "promote_to_manager_2", "promote_to_manager_x"}
TargetOf(d) == Atoi(CallbackParts(d)[1])
Faults == {"none", "read", "write"}
\* The role row of a user in a project, with a role.
RoleRow(projectID, userID, role) ==
    [project_id |-> projectID, user_id |-> userID, user_role |-> role]
\* User u is manager of the project of chat c, and the button names a user
\* who is member of that project.
CanPromote(S, c, u, d) ==
    \E p \in ProjectsOf(S, c) :
        /\ RoleOf(S, p.id, u) = UserProjectRoleManager
        /\ TargetOf(d).ok
        /\ RoleRow(p.id, TargetOf(d).n, UserProjectRoleMember) \in S.userProjects

\* C21: a promote button changes the role rows only when the sender is manager
\* of the project of the chat and the named user is member of it, and then the
\* row of the named user becomes manager and no other row changes; when the
\* named user is manager already, has no role row or does not exist, or the
\* sender is no manager, no role row changes.  Without a storage fault the
\* promotion of a member by a manager does change the row.
C21_PromotionGuard ==
    \A u \in TgUsers, c \in Chats, d \in PromoteCallbacks, f \in Faults :
        LET R == Start([State EXCEPT !.fault = f], CallbackUpdate(c, u, d))
        IN  /\ R.userProjects # State.userProjects =>
                /\ CanPromote(State, c, u, d)
                /\ \E p \in ProjectsOf(State, c) :
                       R.userProjects =
                           (State.userProjects
                               \ {RoleRow(p.id, TargetOf(d).n, UserProjectRoleMember)})
                           \cup {RoleRow(p.id, TargetOf(d).n, UserProjectRoleManager)}
            /\ (f = "none" /\ CanPromote(State, c, u, d)) =>
                   R.userProjects # State.userProjects
            /\ R.projects = State.projects /\ R.users = State.users
            /\ R.tasks = State.tasks

\* C21, its case: a manager promotes a member (the row changes), and the same
\* manager presses the button of a user who is manager already (no row
\* changes).
C21_Witness ==
    \E u \in TgUsers, c \in Chats, d \in PromoteCallbacks, e \in PromoteCallbacks :
        /\ CanPromote(State, c, u, d)
        /\ Start(State, CallbackUpdate(c, u, d)).userProjects # State.userProjects
        /\ \E p \in ProjectsOf(State, c) :
               RoleRow(p.id, TargetOf(e).n, UserProjectRoleManager) \in State.userProjects
        /\ TargetOf(e).ok
        /\ Start(State, CallbackUpdate(c, u, e)).userProjects = State.userProjects

\* C22: after a manager confirmed the deletion of the project of a chat and the
\* delete succeeded, the chat has no project, no task and no role row carries
\* the id of the deleted project, and the users, the other projects, their
\* tasks and their role rows are unchanged.
C22_DeleteLeavesNothing ==
    \A u \in TgUsers, c \in Chats :
        LET R == Start(State, CallbackUpdate(c, u, "confirm_delete_project"))
        IN  Sent(R, "project deleted") =>
                \A p \in ProjectsOf(State, c) :
                    /\ ProjectsOf(R, c) = {}
                    /\ R.projects = State.projects \ {p}
                    /\ R.users = State.users
                    /\ {k \in R.tasks : k.ProjectID = p.id} = {}
                    /\ {k \in R.tasks : k.ProjectID # p.id}
                           = {k \in State.tasks : k.ProjectID # p.id}
                    /\ RolesIn(R, p.id) = {}
                    /\ R.userProjects \ RolesIn(R, p.id)
                           = State.userProjects \ RolesIn(State, p.id)

\* The routing misses: button payloads that name no intent (no known payload,
\* or a known prefix with a malformed id, a missing part or an unknown field),
\* and commands the command router does not know.
RoutingMissCallbacks ==
    {"unknown", "task_x", "edit_field_x_title", "edit_field_1", "edit_field_1_bogus",
     "clear_field_1", "set_status_1", "promote_to_manager_x"}
RoutingMissTexts == {"/help", "@taskbot /help"}
\* The update left the sessions and the stored entities as they were.
NothingChanged(S, R) ==
    /\ R.projects = S.projects /\ R.users = S.users
    /\ R.userProjects = S.userProjects /\ R.tasks = S.tasks
    /\ R.taskCreationState = S.taskCreationState /\ R.taskEditState = S.taskEditState
    /\ R.projectRenameState = S.projectRenameState
    /\ R.projectDescriptionEditState = S.projectDescriptionEditState

\* C23: a button payload that is a routing miss, and an unknown command of a
\* user without session, changes no session map and no stored entity.
C23_RoutingMissChangesNothing ==
    \A u \in TgUsers, c \in Chats :
        /\ \A d \in RoutingMissCallbacks :
               NothingChanged(State, Start(State, CallbackUpdate(c, u, d)))
        /\ BucketsOf(State, u) = {} =>
               \A t \in RoutingMissTexts :
                   LET R == Start(State, MessageUpdate(c, u, t))
                   IN  NothingChanged(State, R) /\ Sent(R, "unknown command")

\* model.TaskStatus, the six values.
TaskStatuses ==
    {TaskStatusBacklog, TaskStatusTODO, TaskStatusInProgress, TaskStatusDone,
     TaskStatusCancelled, TaskStatusOnHold}

\* C24: every stored task has one of the six statuses, whatever update comes
\* next (every text and every button payload, set_status_1_bogus among them),
\* and a text sent in an edit session for the status leaves the status of
\* every task as it was.
C24_StatusIsEnum ==
    /\ \A k \in State.tasks : k.Status \in TaskStatuses
    /\ \A u \in TgUsers, c \in Chats :
           \A e \in AllUpdates(c, u) :
               LET R == Start(State, e)
               IN  /\ \A k \in R.tasks : k.Status \in TaskStatuses
                   /\ ( /\ e.kind = "message"
                        /\ SessionOf(State, u) = "taskEdit"
                        /\ State.taskEditState[u].Field = TaskEditFieldStatus )
                      => \A k \in R.tasks :
                             \E q \in State.tasks : q.id = k.id /\ q.Status = k.Status

\* C25: the loop of Bot.Start has returned only when the context was
\* cancelled; while it runs, whatever update it reads and whatever storage
\* fault the handler meets, it runs on after the handler returned, with an
\* error as well as without, and reads the next update.
C25_LoopGoesOn ==
    /\ ~loop.running => loop.ctxDone
    /\ loop.running =>
           \A u \in TgUsers, c \in Chats, f \in Faults :
               \A e \in AllUpdates(c, u) :
                   LET T == Start([State EXCEPT !.fault = f], e)
                   IN  /\ LoopAfter(loop, T).running
                       /\ LoopAfter(loop, T).ctxDone = loop.ctxDone

\* C25, its case: the loop runs, a handler returns an error on the update read
\* now, and the loop runs on.
C25_Witness ==
    /\ loop.running
    /\ State.projects # {}
    /\ \E u \in TgUsers, c \in Chats, d \in LoopCallbacks :
           LET T == Start(State, CallbackUpdate(c, u, d))
           IN  T.err # "nil" /\ LoopAfter(loop, T).running

\* The fields a clear button clears, and the fields it refuses.
ClearableFields == {TaskEditFieldDescription, TaskEditFieldDeadline, TaskEditFieldAssignee}
RefusedFields == {TaskEditFieldTitle, TaskEditFieldStatus}
\* A row of tasks with one field cleared.
Cleared(task, field) ==
    CASE field = TaskEditFieldDescription -> [task EXCEPT !.Description = ""]
      [] field = TaskEditFieldDeadline -> [task EXCEPT !.Deadline = ZeroTime]
      [] field = TaskEditFieldAssignee -> [task EXCEPT !.Assignee = 0]
\* The state after user u pressed the clear button of a field of task 1 in
\* chat c, the clock reading n.
AfterClear(c, u, field, n) ==
    Start([State EXCEPT !.now = n], CallbackUpdate(c, u, ClearFieldCallback(field)))
\* The readings of the clock that are not before the last write of task 1.
ClocksFrom(task) == {n \in Clocks : n.utc >= task.UpdatedAt}

\* C26 as the specification states it: the clear button of the description,
\* the deadline or the assignee empties that field of task 1 and leaves every
\* other field of the task as it was, and the user has no edit session; the
\* clear button of the title or the status changes no field of a task.
C26_AsStated ==
    \A u \in TgUsers, c \in Chats :
        HasTask1(State) =>
            \A n \in ClocksFrom(Task1(State)) :
                /\ \A f \in ClearableFields :
                       LET R == AfterClear(c, u, f, n)
                       IN  /\ R.tasks = (State.tasks \ {Task1(State)})
                                            \cup {Cleared(Task1(State), f)}
                           /\ u \notin DOMAIN R.taskEditState
                /\ \A f \in RefusedFields : AfterClear(c, u, f, n).tasks = State.tasks

\* C26, amended: as stated, except that the cleared task also gets the time of
\* the clearing as its updated-at time.
C26_ClearField ==
    \A u \in TgUsers, c \in Chats :
        HasTask1(State) =>
            \A n \in ClocksFrom(Task1(State)) :
                /\ \A f \in ClearableFields :
                       LET R == AfterClear(c, u, f, n)
                       IN  /\ R.tasks = (State.tasks \ {Task1(State)})
                                  \cup {[Cleared(Task1(State), f) EXCEPT !.UpdatedAt = n.utc]}
                           /\ u \notin DOMAIN R.taskEditState
                           /\ R.projects = State.projects /\ R.users = State.users
                           /\ R.userProjects = State.userProjects
                /\ \A f \in RefusedFields : AfterClear(c, u, f, n).tasks = State.tasks

\* C26, its case: task 1 has a description, a deadline and an assignee, the
\* user has an edit session, and clearing the description leaves the deadline
\* and the assignee.
C26_Witness ==
    /\ HasTask1(State)
    /\ Task1(State).Description # "" /\ Task1(State).Deadline # ZeroTime
    /\ Task1(State).Assignee # 0
    /\ 101 \in DOMAIN State.taskEditState
    /\ LET R == AfterClear(201, 101, TaskEditFieldDescription, ClockUTC)
       IN  /\ Task1(R).Description = "" /\ Task1(R).Deadline = Task1(State).Deadline
           /\ Task1(R).Assignee = Task1(State).Assignee
           /\ 101 \notin DOMAIN R.taskEditState

\* The state after user u, manager of the project of chat c0, pressed the
\* rename button there: the rename session of u is open.
AfterRenameButton(c0, u) == Fresh(Start(State, CallbackUpdate(c0, u, "cmd_rename_project")))
\* The rows of projects with the title of one row replaced.
Retitled(rows, p, title) == (rows \ {p}) \cup {[p EXCEPT !.title = title]}

\* C27: once user u opened a rename session for the project of chat c0, a
\* text of u that is empty after trimming changes no title and keeps the
\* session, and every other text that is not a cancel keyword gives that
\* project the trimmed text as title, changes no other project, and removes
\* the session.
C27_RenameSession ==
    \A u \in TgUsers, c0 \in Chats :
        LET S1 == AfterRenameButton(c0, u)
        IN  (u \in DOMAIN S1.projectRenameState /\ ProjectsOf(State, c0) # {}) =>
                \A c \in Chats, t \in AllTexts :
                    LET R == Start(S1, MessageUpdate(c, u, t))
                        p0 == CHOOSE p \in ProjectsOf(State, c0) : TRUE
                    IN  IF TrimSpace(t) \in {"/cancel", "otmena"} THEN TRUE
                        ELSE IF TrimSpace(t) = ""
                        THEN /\ R.projects = State.projects
                             /\ u \in DOMAIN R.projectRenameState
                        ELSE /\ R.projects = Retitled(State.projects, p0, TrimSpace(t))
                             /\ u \notin DOMAIN R.projectRenameState

\* The replies of a description edit that succeeded.
DescriptionReplies ==
    {"project description added", "project description cleared",
     "project description changed"}
\* The description a text asks for: none for the skip sentinel, else the
\* trimmed text.
DescriptionOf(t) == IF TrimSpace(t) = "-" THEN "" ELSE TrimSpace(t)

\* C28: once user u opened a description edit session in chat c (and has no
\* other session), after every text the edit reports as stored, the project
\* fetched for the chat has the description the text asks for, and the session
\* of u is removed.
C28_DescriptionIsStored ==
    \A u \in TgUsers, c \in Chats :
        LET S1 == Fresh(Start(State, CallbackUpdate(c, u, "cmd_edit_project_description")))
        IN  BucketsOf(S1, u) = {"projectDescriptionEdit"} =>
                \A t \in AllTexts :
                    LET R == Start(S1, MessageUpdate(c, u, t))
                    IN  (\E m \in DescriptionReplies : Sent(R, m)) =>
                            /\ FetchProjectByChatID(Fresh(R), c).project.Description
                                   = DescriptionOf(t)
                            /\ u \notin DOMAIN R.projectDescriptionEditState

\* The updates with which user u starts the creation of a task in chat c: the
\* button of the main menu, and, for a user without session, the command, bare
\* or addressed to the bot.
CreateTaskUpdates(c, u) ==
    {CallbackUpdate(c, u, "cmd_create_task")}
        \cup IF BucketsOf(State, u) = {}
             THEN {MessageUpdate(c, u, t) : t \in {"/create_task", "@taskbot /create_task"}}
             ELSE {}

\* C29: in a chat without project, starting the creation of a task opens no
\* session, creates no project (and changes nothing else that is stored), and
\* the reply tells to create the project first.
C29_NoProjectNoSession ==
    \A u \in TgUsers, c \in Chats :
        ProjectsOf(State, c) = {} =>
            \A e \in CreateTaskUpdates(c, u) :
                LET R == Start(State, e)
                IN  /\ NothingChanged(State, R)
                    /\ R.out = <<"project not found, create it with /start">>
                    /\ R.err = "nil"

\* C29, its case: a user who is registered and has a project in another chat
\* starts the creation of a task in a chat without project, by the button and
\* by the command.
C29_Witness ==
    \E u \in TgUsers, c \in Chats :
        /\ ProjectsOf(State, c) = {} /\ State.projects # {}
        /\ RolesIn(State, 1) # {}
        /\ BucketsOf(State, u) = {}
        /\ \A e \in CreateTaskUpdates(c, u) :
               /\ Sent(Start(State, e), "project not found, create it with /start")
               /\ u \notin DOMAIN Start(State, e).taskCreationState

\* The commands the command router knows, each with its text addressed to the
\* bot.
RecognisedCommands ==
    {"/start", "/create_project", "/create_task", "/rename_project", "/status", "/home"}
Addressed(t) == (CHOOSE r \in AddressedTable : r.slashed = t).text

\* C30: for a user without session, in either chat and with or without a
\* storage fault, the text "@taskbot /<command>" leaves the same sessions and
\* stored entities, and sends the same replies, as the text "/<command>", for
\* each command the router knows.
C30_AddressedCommand ==
    \A u \in TgUsers, c \in Chats, f \in Faults :
        BucketsOf(State, u) = {} =>
            \A t \in RecognisedCommands :
                Start([State EXCEPT !.fault = f], MessageUpdate(c, u, Addressed(t)))
                    = Start([State EXCEPT !.fault = f], MessageUpdate(c, u, t))

\* C30, its case: the addressed commands act: for a user without session,
\* "@taskbot /create_task" opens a creation session in a chat with a project,
\* and "@taskbot /create_project" creates the project of a chat without one.
C30_Witness ==
    \E u \in TgUsers, c \in Chats, d \in Chats :
        /\ BucketsOf(State, u) = {}
        /\ ProjectsOf(State, c) # {} /\ ProjectsOf(State, d) = {}
        /\ u \in DOMAIN Start(State, MessageUpdate(c, u, "@taskbot /create_task")).taskCreationState
        /\ ProjectsOf(Start(State, MessageUpdate(d, u, "@taskbot /create_project")), d) # {}

\* The calendar buttons that end the deadline step, each with the text that
\* names the same choice: a date as DD.MM.YYYY, the skip as "-".
CalendarChoices ==
    { [data |-> "cal_date_2030_1_9", text |-> "09.01.2030"],
      [data |-> "cal_date_2030_1_11", text |-> "11.01.2030"],
      [data |-> "cal_skip", text |-> "-"] }
\* Every calendar payload of the model.
CalendarCallbacks == {r.data : r \in {q \in CallbackTable : q.prefix = "cal_"}}
\* The outcome of the deadline step: what is stored, the sessions, and whether
\* the choice was rejected, stored, or failed to be stored.
DeadlineOutcome(R) ==
    [tasks |-> R.tasks, projects |-> R.projects, users |-> R.users,
     userProjects |-> R.userProjects, taskCreationState |-> R.taskCreationState,
     taskEditState |-> R.taskEditState, projectRenameState |-> R.projectRenameState,
     projectDescriptionEditState |-> R.projectDescriptionEditState,
     replies |-> {m \in {"wrong date format", "the deadline cannot be in the past",
                         "error while creating the task", "task created"} : Sent(R, m)},
     err |-> R.err]

\* C31: for a user at the deadline step, at every reading of the clock and
\* with or without a failing write, a calendar button has the outcome of the
\* text that names the same choice; a calendar button of a user who is not at
\* the deadline step of a creation session changes nothing and sends nothing.
C31_CalendarAsText ==
    \A u \in TgUsers, c \in Chats :
        IF AtStep(State, u, TaskStepDeadline)
        THEN \A n \in Clocks, f \in {"none", "write"}, k \in CalendarChoices :
                 LET S0 == [State EXCEPT !.now = n, !.fault = f]
                 IN  DeadlineOutcome(Start(S0, CallbackUpdate(c, u, k.data)))
                         = DeadlineOutcome(Start(S0, MessageUpdate(c, u, k.text)))
        ELSE \A d \in CalendarCallbacks :
                 LET R == Start(State, CallbackUpdate(c, u, d))
                 IN  NothingChanged(State, R) /\ R.out = <<>> /\ R.err = "nil"

\* C31, its case: a user at the deadline step for whom, at the present clock,
\* the button of one date stores a task with that deadline and the button of
\* another date is rejected as past, as the texts of the two dates are.
C31_Witness ==
    \E u \in TgUsers, c \in Chats, n \in Clocks :
        /\ AtStep(State, u, TaskStepDeadline)
        /\ LET S0 == [State EXCEPT !.now = n]
               A == Start(S0, CallbackUpdate(c, u, "cal_date_2030_1_11"))
               B == Start(S0, CallbackUpdate(c, u, "cal_date_2030_1_9"))
           IN  /\ Sent(A, "task created")
               /\ \E t \in A.tasks : t \notin State.tasks /\ t.Deadline = EndOfDay(11)
               /\ u \notin DOMAIN A.taskCreationState
               /\ Sent(B, "the deadline cannot be in the past")
               /\ B.tasks = State.tasks /\ u \in DOMAIN B.taskCreationState
               /\ Sent(Start(S0, MessageUpdate(c, u, "09.01.2030")),
                       "the deadline cannot be in the past")

\* Whether the assignee of a task is a user with a role row in the project of
\* the task.
AssigneeIsMember(S, k) ==
    \E r \in S.userProjects : r.project_id = k.ProjectID /\ r.user_id = k.Assignee

\* C32: in every reachable state, every task with an assignee has as assignee
\* a user with a role row in the project of the task.
C32_AssigneeIsMember ==
    \A k \in State.tasks : k.Assignee # 0 => AssigneeIsMember(State, k)

\* The internal ids of the stored users.
UserIDs(S) == {r.id : r \in S.users}

\* C33: in every reachable state the creator id and the last-updater id of
\* every task are ids of stored users, and the task a user stores by ending
\* the creation flow has as creator and last updater the id of the user row of
\* that platform user.
C33_CreatorIsUser ==
    /\ \A k \in State.tasks :
           k.CreatedBy \in UserIDs(State) /\ k.UpdatedBy \in UserIDs(State)
    /\ \A u \in TgUsers, c \in Chats :
           AtStep(State, u, TaskStepDeadline) =>
               LET R == Start(State, CallbackUpdate(c, u, "cal_skip"))
               IN  \A k \in R.tasks \ State.tasks :
                       /\ k.CreatedBy = FetchUserByTgID(State, u).user.ID
                       /\ k.UpdatedBy = FetchUserByTgID(State, u).user.ID

\* Whether chat c is the chat of the project with this id.
ChatOfProject(S, c, projectID) == \E p \in ProjectsOf(S, c) : p.id = projectID

\* C34: an update changes a stored task only when it is sent in the chat of
\* the project of the task by a user who has a role in that project.
C34_TaskChangeIsAuthorised ==
    \A u \in TgUsers, c \in Chats :
        \A e \in AllUpdates(c, u) :
            LET R == Start(State, e)
            IN  \A k \in State.tasks :
                    k \notin R.tasks =>
                        /\ ChatOfProject(State, c, k.ProjectID)
                        /\ RoleOf(State, k.ProjectID, u) # ""

\* C35: in private mode, an update of a user who is not in the list of allowed
\* users changes no session map and no stored entity: it is answered with the
\* access denied message before any routing, and no storage call is made.
C35_DeniedChangesNothing ==
    ~State.cfg.Public =>
        \A u \in TgUsers \ State.cfg.AllowedTgIDs, c \in Chats :
            \A e \in AllUpdates(c, u) :
                LET R == Start(State, e)
                IN  /\ NothingChanged(State, R)
                    /\ R.route = "denied"
                    /\ R.calls = <<>>

\* A user who is not allowed holds a creation session, from the time of the
\* public mode, and a project is stored.
C35_Witness ==
    /\ ~State.cfg.Public
    /\ 102 \notin State.cfg.AllowedTgIDs
    /\ 102 \in DOMAIN State.taskCreationState
    /\ State.projects # {}

\* The entry of user v in a session map, or "none".
EntryOf(m, v) == IF v \in DOMAIN m THEN <<m[v]>> ELSE <<>>

\* What the four session maps hold of user v.
SessionsOf(S, v) ==
    <<EntryOf(S.taskCreationState, v), EntryOf(S.taskEditState, v),
      EntryOf(S.projectRenameState, v), EntryOf(S.projectDescriptionEditState, v)>>

\* C36: handling an update of user u adds, removes and modifies no session
\* entry of another user v.
C36_OtherSessionsKept ==
    \A u \in TgUsers, c \in Chats :
        \A e \in AllUpdates(c, u) :
            LET R == Start(State, e)
            IN  \A v \in TgUsers \ {u} : SessionsOf(R, v) = SessionsOf(State, v)

\* Both users hold a session: each of them was served while the other one
\* held an entry or went on to get one.
C36_Witness ==
    /\ SessionsOf(State, 101) # SessionsOf([State EXCEPT !.taskCreationState = EmptyMap,
                                  !.taskEditState = EmptyMap, !.projectRenameState = EmptyMap,
                                  !.projectDescriptionEditState = EmptyMap], 101)
    /\ 102 \in DOMAIN State.taskCreationState

\* Every stored project that has a role row has one with the role manager.
ProjectHasManager(S) ==
    \A p \in S.projects :
        RolesIn(S, p.id) # {} =>
            \E r \in RolesIn(S, p.id) : r.user_role = UserProjectRoleManager

\* C37: updates being handled one at a time, in every reachable state every
\* project that has a role row has a role row with the role manager; and so
\* it is after one more update, whichever storage call fails meanwhile.
C37_ProjectHasManager ==
    /\ ProjectHasManager(State)
    /\ \A u \in TgUsers, c \in Chats, f \in Faults :
           \A e \in AllUpdates(c, u) :
               ProjectHasManager(Start([State EXCEPT !.fault = f], e))

\* A project has a member next to its manager: a second user joined it.
C37_Witness ==
    \E p \in State.projects :
        /\ \E r \in RolesIn(State, p.id) : r.user_role = UserProjectRoleMember
        /\ \E r \in RolesIn(State, p.id) : r.user_role = UserProjectRoleManager

\* The ids of the stored projects.
ProjectIDs(S) == {p.id : p \in S.projects}

\* C38: every stored task is a task of a stored project; and a task that the
\* last step of a creation session stores is a task of a stored project, also
\* when the project of the session was deleted since the session began.
C38_TaskHasProject ==
    /\ \A k \in State.tasks : k.ProjectID \in ProjectIDs(State)
    /\ \A u \in TgUsers, c \in Chats :
           AtStep(State, u, TaskStepDeadline) =>
               LET R == Start(State, CallbackUpdate(c, u, "cal_skip"))
               IN  \A k \in R.tasks \ State.tasks : k.ProjectID \in ProjectIDs(R)

====
